---- MODULE Spec2Model ----
(***************************************************************************)
(* A model of the incisiveetl CSV pipeline: the row transform              *)
(* (src/src/utils/csv-helpers.js), the generic row processor               *)
(* (src/src/services/csvprocessor.js), the persistence adapter             *)
(* (src/src/services/dbservice.js), the storage gateway (S3Service) and    *)
(* the per-file and per-entity runners (src/src/etl/processor.js).         *)
(*                                                                         *)
(* The PostgreSQL server and the S3 bucket are the environment.  A         *)
(* statement the server rejects inside BEGIN..COMMIT puts the session's    *)
(* transaction in the aborted state: every later statement is rejected     *)
(* and COMMIT ends the transaction by rolling it back, without an error.   *)
(***************************************************************************)
EXTENDS Integers, Sequences, FiniteSets, TLC

(***************************************************************************)
(* Bounds of the model.                                                    *)
(***************************************************************************)
MaxRows == 2
MaxBatch == 2
MaxRuns == 1

(***************************************************************************)
(* JavaScript values.  Each kind has its own field name, so two values of  *)
(* different kinds are unequal records.                                    *)
(***************************************************************************)
Str(s) == [s |-> s]
Num(n) == [n |-> n]
Bool(b) == [b |-> b]
NaN == [nan |-> TRUE]
Null == [null |-> TRUE]
Undefined == [undef |-> TRUE]

IsStr(v) == DOMAIN v = {"s"}
IsNum(v) == DOMAIN v = {"n"}

\* JavaScript truthiness: '', 0, NaN, null, undefined and false are falsy.
Truthy(v) ==
    CASE IsStr(v) -> v.s # ""
      [] IsNum(v) -> v.n # 0
      [] DOMAIN v = {"b"} -> v.b
      [] OTHER -> FALSE

\* a || b
Or(a, b) == IF Truthy(a) THEN a ELSE b

(***************************************************************************)
(* Strings read character by character are tuples of one-character         *)
(* strings; Join gives the string.                                         *)
(***************************************************************************)
RECURSIVE Join(_)
Join(t) == IF t = <<>> THEN "" ELSE Head(t) \o Join(Tail(t))

UpperChars == <<"A","B","C","D","E","F","G","H","I","J","K","L","M",
                "N","O","P","Q","R","S","T","U","V","W","X","Y","Z">>
LowerChars == <<"a","b","c","d","e","f","g","h","i","j","k","l","m",
                "n","o","p","q","r","s","t","u","v","w","x","y","z">>
DigitChars == <<"0","1","2","3","4","5","6","7","8","9">>
WhiteChars == {" ", "\t"}

Range(f) == { f[x] : x \in DOMAIN f }

\* String.prototype.toLowerCase, one character
toLowerCase(c) ==
    IF \E k \in DOMAIN UpperChars : UpperChars[k] = c
    THEN LowerChars[CHOOSE k \in DOMAIN UpperChars : UpperChars[k] = c]
    ELSE c

\* String.prototype.trim
RECURSIVE trimStart(_)
trimStart(t) ==
    IF t # <<>> /\ Head(t) \in WhiteChars THEN trimStart(Tail(t)) ELSE t

RECURSIVE trimEnd(_)
trimEnd(t) ==
    IF t # <<>> /\ t[Len(t)] \in WhiteChars
    THEN trimEnd(SubSeq(t, 1, Len(t) - 1))
    ELSE t

trim(t) == trimEnd(trimStart(t))

\* the character class [a-z0-9]
IsLowerAlnum(c) == c \in Range(LowerChars) \cup Range(DigitChars)

\* mutant of NormalizeKey: the replace has no g flag and removes the
\* first match only
NormalizeKeyFirstOnly(key) ==
    LET t == trim([k \in DOMAIN key |-> toLowerCase(key[k])])
        special == {k \in DOMAIN t : ~IsLowerAlnum(t[k])}
    IN  IF special = {} THEN t
        ELSE LET first == CHOOSE k \in special : \A m \in special : k <= m
             IN  SubSeq(t, 1, first - 1) \o SubSeq(t, first + 1, Len(t))

\* key.toLowerCase().trim().replace(/[^a-z0-9]/g, '')
NormalizeKey(key) ==
    SelectSeq(trim([k \in DOMAIN key |-> toLowerCase(key[k])]), IsLowerAlnum)

(***************************************************************************)
(* A JavaScript object with string keys is the sequence of its             *)
(* <<key, value>> entries in insertion order; a key occurs once.           *)
(***************************************************************************)
HasKey(obj, key) == \E k \in DOMAIN obj : obj[k][1] = key

\* obj[key]
Get(obj, key) ==
    IF HasKey(obj, key)
    THEN obj[CHOOSE k \in DOMAIN obj : obj[k][1] = key][2]
    ELSE Undefined

\* mutant of Put: an existing key keeps its value
PutKeepsFirst(obj, key, value) ==
    IF HasKey(obj, key) THEN obj ELSE Append(obj, <<key, value>>)

\* obj[key] = value: an existing key keeps its place and takes the value
Put(obj, key, value) ==
    IF HasKey(obj, key)
    THEN [k \in DOMAIN obj |->
            IF obj[k][1] = key THEN <<key, value>> ELSE obj[k]]
    ELSE Append(obj, <<key, value>>)

\* an array index as a property key: a canonical numeric string
IsIndex(key) ==
    /\ key # <<>>
    /\ \A k \in DOMAIN key : key[k] \in Range(DigitChars)
    /\ Len(key) > 1 => key[1] # "0"

DigitValue(c) == (CHOOSE k \in DOMAIN DigitChars : DigitChars[k] = c) - 1

RECURSIVE IndexValue(_)
IndexValue(key) ==
    IF key = <<>> THEN 0
    ELSE 10 * IndexValue(SubSeq(key, 1, Len(key) - 1))
         + DigitValue(key[Len(key)])

\* the order in which Object.entries visits an object's own properties:
\* index keys in ascending numeric order, then the other keys in insertion
\* order
OwnEntries(obj) ==
    LET isIndex(entry) == IsIndex(entry[1])
        isName(entry) == ~IsIndex(entry[1])
        before(a, b) == IndexValue(a[1]) < IndexValue(b[1])
    IN  SortSeq(SelectSeq(obj, isIndex), before) \o SelectSeq(obj, isName)

RECURSIVE normalizeFrom(_, _)
normalizeFrom(entries, normalized) ==
    IF entries = <<>> THEN normalized
    ELSE normalizeFrom(Tail(entries),
            Put(normalized, NormalizeKey(Head(entries)[1]), Head(entries)[2]))

\* normalizeCSVRow(row)
normalizeCSVRow(row) == OwnEntries(normalizeFrom(row, <<>>))

\* row.<name> of a normalized row: the key is compared as a string
Field(row, name) ==
    IF \E k \in DOMAIN row : Join(row[k][1]) = name
    THEN row[CHOOSE k \in DOMAIN row : Join(row[k][1]) = name][2]
    ELSE Undefined

(***************************************************************************)
(* Number(s) and parseInt(s, 10) on the strings the model's files hold.    *)
(***************************************************************************)
NumberOf(v) ==
    CASE v = Str("1") -> Num(1)
      [] v = Str("2") -> Num(2)
      [] v = Str("7") -> Num(7)
      [] v = Str("0") -> Num(0)
      [] OTHER -> NaN

parseInt(v) ==
    CASE v = Str("1") -> Num(1)
      [] v = Str("2") -> Num(2)
      [] v = Str("7") -> Num(7)
      [] v = Str("0") -> Num(0)
      [] v = Str("2x") -> Num(2)
      [] v = Str("100") -> Num(100)
      [] OTHER -> NaN

\* row.x ? Number(row.x) : null, then Number.isNaN(id) ? null : id
NumericId(v) ==
    LET id == IF Truthy(v) THEN NumberOf(v) ELSE Null
    IN  IF id = NaN THEN Null ELSE id

(***************************************************************************)
(* The per-entity map functions.                                           *)
(***************************************************************************)
OrdersColumns ==
    {"submissiondate", "shippingdate", "casedate", "caseid", "productid",
     "productdescription", "quantity", "productprice", "patientname",
     "customerid", "customername", "address", "phonenumber", "casestatus",
     "holdreason", "estimatecompletedate", "requestedreturndate",
     "trackingnumber", "estimatedshipdate", "holddate", "deliverystatus",
     "notes", "onhold", "shade", "mold", "doctorpreferences",
     "productpreferences", "comments", "casetotal"}

\* mutant of mapCSVToSchema: quantity is guarded like the numeric ids of the
\* reference entities (Number.isNaN(q) ? null : q)
mapCSVToSchemaGuarded(row) ==
    [c \in OrdersColumns |->
        IF c = "quantity"
        THEN IF Truthy(Field(row, "quantity"))
             THEN IF parseInt(Field(row, "quantity")) = NaN
                  THEN Null ELSE parseInt(Field(row, "quantity"))
             ELSE Null
        ELSE Or(Field(row, c), Null)]

mapCSVToSchema(row) ==
    [c \in OrdersColumns |->
        IF c = "quantity"
        THEN IF Truthy(Field(row, "quantity"))
             THEN parseInt(Field(row, "quantity")) ELSE Null
        ELSE Or(Field(row, c), Null)]

mapCSVToLabProductSchema(row) ==
    [incisive_id |-> NumericId(Field(row, "incisiveid")),
     incisive_name |-> Or(Field(row, "incisivename"), Null),
     category |-> Or(Field(row, "category"), Null),
     sub_category |-> Or(Field(row, "subcategory"), Null)]

mapCSVToLabPracticeSchema(row) ==
    [practice_id |-> NumericId(Field(row, "practiceid")),
     dental_group_id |-> NumericId(Field(row, "dentalgroupid")),
     dental_group_name |-> Or(Field(row, "dentalgroupname"), Null),
     address |-> Or(Field(row, "address"), Null),
     address_2 |-> Or(Field(row, "address2"), Null),
     city |-> Or(Field(row, "city"), Null),
     state |-> Or(Field(row, "state"), Null),
     zip |-> Or(Field(row, "zip"), Null),
     phone |-> Or(Field(row, "phone"), Null),
     clinical_email |-> Or(Field(row, "clinicalemail"), Null),
     billing_email |-> Or(Field(row, "billingemail"), Null),
     incisive_email |-> Or(Field(row, "incisiveemail"), Null),
     preferred_contact_method |-> Or(Field(row, "preferredcontactmethod"), Null),
     fee_schedule |-> Or(Field(row, "feeschedule"), Null),
     status |-> Or(Field(row, "status"), Null)]

mapCSVToLabProductMappingSchema(row) ==
    [lab_id |-> NumericId(Field(row, "labid")),
     lab_product_id |-> Or(Field(row, "labproductid"), Null),
     incisive_product_id |-> NumericId(Field(row, "incisiveproductid"))]

mapCSVToLabPracticeMappingSchema(row) ==
    [lab_id |-> NumericId(Field(row, "labid")),
     practice_id |-> NumericId(Field(row, "practiceid")),
     lab_practice_id |-> Or(Field(row, "labpracticeid"), Null)]

mapCSVToDentalGroupsSchema(row) ==
    LET cb == Field(row, "centralizedbilling")
    IN  [dental_group_id |-> NumericId(Field(row, "dentalgroupid")),
         name |-> Or(Field(row, "name"), Null),
         address |-> Or(Field(row, "address"), Null),
         address_2 |-> Or(Field(row, "address2"), Null),
         city |-> Or(Field(row, "city"), Null),
         state |-> Or(Field(row, "state"), Null),
         zip |-> Or(Field(row, "zip"), Null),
         account_type |-> Or(Field(row, "accounttype"), Null),
         centralized_billing |->
            IF cb # Undefined /\ cb # Null
            THEN Bool(cb \in {Str("true"), Str("TRUE"), Str("1"), Bool(TRUE)})
            ELSE Null,
         sales_channel |-> Or(Field(row, "saleschannel"), Null),
         sales_rep |-> Or(Field(row, "salesrep"), Null)]

(***************************************************************************)
(* The six pipelines: the options each process<Entity>Rows hands to        *)
(* _processRows.                                                           *)
(***************************************************************************)
Entities ==
    {"orders", "labProduct", "labPractice", "labProductMapping",
     "labPracticeMapping", "dentalGroups"}

requiredFields(e) ==
    CASE e = "orders" ->
            <<"submissiondate", "casedate", "caseid", "productid",
              "quantity", "customerid">>
      [] e = "labProduct" -> <<"incisive_id", "incisive_name", "category">>
      [] e = "labPractice" -> <<"practice_id", "dental_group_id">>
      [] e = "labProductMapping" ->
            <<"lab_id", "lab_product_id", "incisive_product_id">>
      [] e = "labPracticeMapping" ->
            <<"lab_id", "practice_id", "lab_practice_id">>
      [] e = "dentalGroups" -> <<"dental_group_id">>

mapFunction(e, row) ==
    CASE e = "orders" -> mapCSVToSchema(row)
      [] e = "labProduct" -> mapCSVToLabProductSchema(row)
      [] e = "labPractice" -> mapCSVToLabPracticeSchema(row)
      [] e = "labProductMapping" -> mapCSVToLabProductMappingSchema(row)
      [] e = "labPracticeMapping" -> mapCSVToLabPracticeMappingSchema(row)
      [] e = "dentalGroups" -> mapCSVToDentalGroupsSchema(row)

\* mutant of shouldTruncate: the option is left at its default, false
shouldTruncateNever(e) == FALSE

\* shouldTruncate: processOrdersRows alone sets it
shouldTruncate(e) == e = "orders"

\* processOrdersFile alone calls the merge procedure after the row loop
callsMerge(e) == e = "orders"

\* the columns of the ON CONFLICT clause of each insert; orders_stage has none
conflictColumns(e) ==
    CASE e = "orders" -> <<>>
      [] e = "labProduct" -> <<"incisive_id">>
      [] e = "labPractice" -> <<"practice_id">>
      [] e = "labProductMapping" -> <<"lab_id", "lab_product_id">>
      [] e = "labPracticeMapping" -> <<"lab_id", "practice_id">>
      [] e = "dentalGroups" -> <<"dental_group_id">>

\* mutant of MissingFieldsOf: null is not taken for missing
MissingFieldsOfIgnoringNull(mappedRow, required) ==
    LET missing(key) ==
            \/ key \notin DOMAIN mappedRow
            \/ mappedRow[key] = Undefined
            \/ mappedRow[key] = Str("")
    IN  SelectSeq(required, missing)

\* mutant of MissingFieldsOf: find for filter, the first missing field only
MissingFieldsOfFirst(mappedRow, required) ==
    LET missing(key) ==
            \/ key \notin DOMAIN mappedRow
            \/ mappedRow[key] = Null
            \/ mappedRow[key] = Undefined
            \/ mappedRow[key] = Str("")
        all == SelectSeq(required, missing)
    IN  IF all = <<>> THEN <<>> ELSE <<all[1]>>

\* requiredFields.filter(key => mappedRow[key] === null ||
\*     mappedRow[key] === undefined || mappedRow[key] === '')
MissingFieldsOf(mappedRow, required) ==
    LET missing(key) ==
            \/ key \notin DOMAIN mappedRow
            \/ mappedRow[key] = Null
            \/ mappedRow[key] = Undefined
            \/ mappedRow[key] = Str("")
    IN  SelectSeq(required, missing)

\* missingFields.join(', ')
RECURSIVE JoinComma(_)
JoinComma(names) ==
    IF names = <<>> THEN ""
    ELSE IF Len(names) = 1 THEN names[1]
    ELSE names[1] \o ", " \o JoinComma(Tail(names))

MissingReason(missingFields) ==
    "Missing required fields: " \o JoinComma(missingFields)

(***************************************************************************)
(* The files of the model.  parseCSV yields one object per record, keyed   *)
(* by the header line's texts as written.  A file is a sequence of row     *)
(* kinds: "ok" is a complete row, "blank" has an empty required field,     *)
(* "nonnum" has letters in a numeric field.                                *)
(***************************************************************************)
RowKinds == {"ok", "blank", "nonnum"}

Headers(e) ==
    CASE e = "orders" ->
            <<<<"S","u","b","m","i","s","s","i","o","n"," ","D","a","t","e">>,
              <<"C","a","s","e"," ","D","a","t","e">>,
              <<"C","a","s","e"," ","I","D">>,
              <<"P","r","o","d","u","c","t"," ","I","D">>,
              <<"Q","u","a","n","t","i","t","y">>,
              <<"C","u","s","t","o","m","e","r"," ","I","D">>>>
      [] e = "labProduct" ->
            <<<<"I","n","c","i","s","i","v","e"," ","I","D">>,
              <<"I","n","c","i","s","i","v","e"," ","N","a","m","e">>,
              <<"C","a","t","e","g","o","r","y">>>>
      [] e = "labPractice" ->
            <<<<"P","r","a","c","t","i","c","e"," ","I","D">>,
              <<"D","e","n","t","a","l"," ","G","r","o","u","p"," ","I","D">>>>
      [] e = "labProductMapping" ->
            <<<<"L","a","b"," ","I","D">>,
              <<"L","a","b"," ","P","r","o","d","u","c","t"," ","I","D">>,
              <<"I","n","c","i","s","i","v","e"," ","P","r","o","d","u","c","t"," ","I","D">>>>
      [] e = "labPracticeMapping" ->
            <<<<"L","a","b"," ","I","D">>,
              <<"P","r","a","c","t","i","c","e"," ","I","D">>,
              <<"L","a","b"," ","P","r","a","c","t","i","c","e"," ","I","D">>>>
      [] e = "dentalGroups" ->
            <<<<"D","e","n","t","a","l"," ","G","r","o","u","p"," ","I","D">>,
              <<"N","a","m","e">>>>

CellTexts(e, kind) ==
    CASE e = "orders" /\ kind = "ok" -> <<"d1", "d2", "7", "p1", "2", "c1">>
      [] e = "orders" /\ kind = "blank" -> <<"d1", "d2", "", "p1", "2", "c1">>
      [] e = "orders" /\ kind = "nonnum" -> <<"d1", "d2", "7", "p1", "abc", "c1">>
      [] e = "labProduct" /\ kind = "ok" -> <<"1", "n1", "cat">>
      [] e = "labProduct" /\ kind = "blank" -> <<"", "n1", "cat">>
      [] e = "labProduct" /\ kind = "nonnum" -> <<"abc", "n1", "cat">>
      [] e = "labPractice" /\ kind = "ok" -> <<"1", "2">>
      [] e = "labPractice" /\ kind = "blank" -> <<"", "2">>
      [] e = "labPractice" /\ kind = "nonnum" -> <<"1", "abc">>
      [] e = "labProductMapping" /\ kind = "ok" -> <<"1", "lp", "2">>
      [] e = "labProductMapping" /\ kind = "blank" -> <<"", "lp", "2">>
      [] e = "labProductMapping" /\ kind = "nonnum" -> <<"1", "lp", "abc">>
      [] e = "labPracticeMapping" /\ kind = "ok" -> <<"1", "2", "lp">>
      [] e = "labPracticeMapping" /\ kind = "blank" -> <<"", "2", "lp">>
      [] e = "labPracticeMapping" /\ kind = "nonnum" -> <<"1", "abc", "lp">>
      [] e = "dentalGroups" /\ kind = "ok" -> <<"1", "g1">>
      [] e = "dentalGroups" /\ kind = "blank" -> <<"", "g1">>
      [] e = "dentalGroups" /\ kind = "nonnum" -> <<"abc", "g1">>

\* the object csv-parser emits for one record
RawRow(e, kind) ==
    [k \in DOMAIN Headers(e) |-> <<Headers(e)[k], Str(CellTexts(e, kind)[k])>>]

RECURSIVE SeqsUpTo(_, _)
SeqsUpTo(S, n) ==
    IF n = 0 THEN {<<>>}
    ELSE LET shorter == SeqsUpTo(S, n - 1)
         IN  shorter \cup
             { Append(q, x) : q \in { p \in shorter : Len(p) = n - 1 }, x \in S }

FileContents == SeqsUpTo(RowKinds, MaxRows)

\* parseCSV(stream)
parseCSV(e, body) == [k \in DOMAIN body |-> RawRow(e, body[k])]


(***************************************************************************)
(* The bucket.  A key is sourcePath, then "processed/" or "logs/" or       *)
(* nothing, then a timestamp prefix (pre # 0: `${timestamp}_`), the file   *)
(* name, and a timestamp suffix (suf # 0: `_${timestamp}`).  The           *)
(* timestamp of a run is its number.                                       *)
(***************************************************************************)
FileOrder == <<"a.csv", "b.csv">>
FileNames == Range(FileOrder)

Key(e, path, pre, name, suf) ==
    [ent |-> e, path |-> path, pre |-> pre, name |-> name, suf |-> suf]

\* sourcePath + fileName
SourceKey(e, f) == Key(e, "", 0, f, 0)

\* processedPath + `${timestamp}_${fileName}`
ProcessedKey(e, f, timestamp) == Key(e, "processed/", timestamp, f, 0)

\* `${logsPath}${fileName}_${timestamp}`
LogKey(e, f, timestamp) == Key(e, "logs/", 0, f, timestamp)

\* the objects a console leaves for the three folders of a pipeline
FolderMarkers(e) ==
    {Key(e, "", 0, "", 0), Key(e, "processed/", 0, "", 0),
     Key(e, "logs/", 0, "", 0)}

\* obj.Key.endsWith('.csv'): every file name of the model ends in .csv
EndsWithCsv(key) == key.suf = 0 /\ key.name \in FileNames

\* the filter of _listFiles: not the prefix marker, not under processedPath,
\* ending in .csv
Listed(e, key) ==
    /\ key.ent = e
    /\ key # Key(e, "", 0, "", 0)
    /\ key.path # "processed/"
    /\ EndsWithCsv(key)

\* _listFiles(sourcePath, processedPath): the bucket lists keys in key order
ListFiles(bucket, e) ==
    LET listed(f) == \E key \in bucket : Listed(e, key) /\ key.name = f
    IN  SelectSeq(FileOrder, listed)

\* checkFileExists: ListObjectsV2 with Prefix sourcePath + fileName, MaxKeys 1
checkFileExists(bucket, e, f) ==
    \E key \in bucket :
        key.ent = e /\ key.path = "" /\ key.pre = 0 /\ key.name = f

(***************************************************************************)
(* The state.                                                              *)
(***************************************************************************)
VARIABLES
    batchSize,          \* config.processing.batchSize
    content,            \* the body of each source file, as row kinds
    s3,                 \* the keys of the bucket
    db,                 \* the committed rows of each entity's table
    txdb,               \* the open transaction's view of the entity's table
    tx,                 \* the session's transaction: none, open, aborted
    held,               \* pooled connections checked out and not released
    run,                \* runs started so far (the run's timestamp)
    entity,             \* the pipeline the command selects
    pc,                 \* the await the process is suspended at
    files,              \* the listing the runner iterates
    fi,                 \* the index of the current file in files
    results,            \* the runner's results
    successful,         \* the runner's count of successful files
    failed,             \* the runner's count of failed files
    fileName,           \* the file being processed
    rows,               \* the parsed rows of the file
    i,                  \* the batch loop's index
    j,                  \* the row loop's index within the batch
    successCount,
    errorCount,
    csvRemark,
    missingFieldErrors,
    error,              \* the exception the catch block of _processRows holds
    calls,              \* history: per row, the outcomes of its insert calls
    txOutcome,          \* history: how the file's transaction ended
    mergeOutcome,       \* history: how the file's merge call ended
    maxKeys,            \* the keys the bucket returns per response
    allFiles,           \* _listFiles: the eligible names collected so far
    continuationToken,  \* _listFiles: 0 for undefined
    listing,            \* _listFiles: off, send, done or threw
    command,            \* process.argv[2] as the dispatcher reads it
    ei,                 \* processAllFiles: the entity runners started
    totals,             \* processAllFiles: the sums over the runners
    exitCode,           \* the code the process exited with, Running before
    fatal,              \* the error the dispatcher's catch block received
    previous,           \* history: the run before a rerun, its results
                        \* and the tables as it left them
    arg,                \* the argument of a function called on its own
    out                 \* the results of that function's calls, in order

config == <<batchSize, content>>
database == <<db, txdb, tx, held>>
runner ==
    <<run, entity, files, fi, results, successful, failed, fileName, previous>>
counters == <<successCount, errorCount, csvRemark, missingFieldErrors, calls>>
locals == <<rows, i, j, counters, error, txOutcome, mergeOutcome>>
lister == <<maxKeys, allFiles, continuationToken, listing>>
cli == <<command, ei, totals, exitCode, fatal>>
call == <<arg, out>>
vars == <<config, s3, database, runner, pc, locals, lister, cli, call>>

\* a row of a table: the file and run it came from, its number in the file
\* and its values in the columns of the table's ON CONFLICT clause
StoredRow(e, f, r, rowNumber, mappedRow) ==
    [file |-> f, run |-> r, rowNumber |-> rowNumber,
     key |-> [c \in DOMAIN conflictColumns(e) |->
                 mappedRow[conflictColumns(e)[c]]]]

\* rows left in orders_stage by a run before the model's first
StaleStage == <<[file |-> "old.csv", run |-> 0, rowNumber |-> 1, key |-> <<>>]>>

\* the tables before the first run
InitialTables ==
    db = [e \in Entities |-> IF e = "orders" THEN StaleStage ELSE <<>>]

\* the process before any run: nothing in flight, nothing counted
Fresh ==
    /\ txdb = <<>>
    /\ tx = "none"
    /\ held = 0
    /\ run = 0
    /\ pc = "idle"
    /\ files = <<>>
    /\ fi = 0
    /\ results = <<>>
    /\ successful = 0
    /\ failed = 0
    /\ fileName = ""
    /\ rows = <<>>
    /\ i = 0
    /\ j = 0
    /\ successCount = 0
    /\ errorCount = 0
    /\ csvRemark = <<>>
    /\ missingFieldErrors = <<>>
    /\ error = ""
    /\ calls = <<>>
    /\ txOutcome = "none"
    /\ mergeOutcome = "none"
    /\ previous = [run |-> 0, results |-> <<>>,
                   db |-> [e \in Entities |-> <<>>]]

\* no function is called on its own
NoCall ==
    /\ arg = <<>>
    /\ out = <<>>

\* no listing by pages is in progress
NoListing ==
    /\ maxKeys = 1
    /\ allFiles = <<>>
    /\ continuationToken = 0
    /\ listing = "off"

\* the process has not exited
Running == -1

\* the services are used as a module (module.exports), not from the
\* command line
NoCommand ==
    /\ command = "module"
    /\ ei = 0
    /\ totals = [processed |-> 0, successful |-> 0, failed |-> 0]
    /\ exitCode = Running
    /\ fatal = ""

\* one file a.csv of up to MaxRows rows waits under the entity's prefix
Init ==
    /\ batchSize \in 1..MaxBatch
    /\ entity \in Entities
    /\ \E body \in FileContents :
          content = [f \in FileNames |-> IF f = "a.csv" THEN body ELSE <<>>]
    /\ s3 = {SourceKey(entity, "a.csv")} \cup FolderMarkers(entity)
    /\ InitialTables
    /\ Fresh
    /\ NoCall
    /\ NoListing
    /\ NoCommand


(***************************************************************************)
(* The runner: processAll<Entity>Files, and the end of a file's processing.*)
(***************************************************************************)
Min(a, b) == IF a < b THEN a ELSE b

ResetLocals ==
    /\ rows' = <<>>
    /\ i' = 0
    /\ j' = 0
    /\ successCount' = 0
    /\ errorCount' = 0
    /\ csvRemark' = <<>>
    /\ missingFieldErrors' = <<>>
    /\ calls' = <<>>
    /\ error' = ""
    /\ txOutcome' = "none"
    /\ mergeOutcome' = "none"

\* the object process<Entity>File returns
FileResult(skipped) ==
    [file |-> fileName, success |-> TRUE, skipped |-> skipped,
     rowCount |-> Len(rows), successCount |-> successCount,
     errorCount |-> errorCount, error |-> ""]

\* what the runner's catch block records: { file, success: false, error }
FailedResult(message) ==
    [file |-> fileName, success |-> FALSE, skipped |-> FALSE,
     rowCount |-> 0, successCount |-> 0, errorCount |-> 0, error |-> message]

\* mutant of Tally: a failed file ends the runner's loop
TallyStopsAtFailure(result) ==
    /\ results' = Append(results, result)
    /\ successful' = IF result.success THEN successful + 1 ELSE successful
    /\ failed' = IF result.success THEN failed ELSE failed + 1
    /\ IF fi < Len(files) /\ result.success
       THEN /\ fi' = fi + 1
            /\ fileName' = files[fi + 1]
            /\ pc' = "check"
       ELSE /\ fi' = fi
            /\ fileName' = ""
            /\ pc' = "idle"
    /\ ResetLocals
    /\ UNCHANGED <<run, entity, files, previous>>

\* the body of the runner's for loop once process<Entity>File has returned
\* or thrown, up to the next file's first await or the runner's return
Tally(result) ==
    /\ results' = Append(results, result)
    /\ successful' = IF result.success THEN successful + 1 ELSE successful
    /\ failed' = IF result.success THEN failed ELSE failed + 1
    /\ IF fi < Len(files)
       THEN /\ fi' = fi + 1
            /\ fileName' = files[fi + 1]
            /\ pc' = "check"
       ELSE /\ fi' = fi
            /\ fileName' = ""
            /\ pc' = "idle"
    /\ ResetLocals
    /\ UNCHANGED <<run, entity, files, previous>>

\* process<Entity>File returns normally
FileReturns(skipped) == Tally(FileResult(skipped))

\* process<Entity>File throws: its catch block logs and rethrows
FileThrows(message) == Tally(FailedResult(message))

\* processAll<Entity>Files: list the files and start on the first
BeginRunOf(e) ==
    /\ run' = run + 1
    /\ entity' = e
    /\ files' = ListFiles(s3, e)
    /\ results' = <<>>
    /\ successful' = 0
    /\ failed' = 0
    /\ IF ListFiles(s3, e) = <<>>
       THEN fi' = 0 /\ fileName' = "" /\ pc' = "idle"
       ELSE fi' = 1 /\ fileName' = ListFiles(s3, e)[1] /\ pc' = "check"
    /\ UNCHANGED <<config, call, lister, s3, database, locals>>

\* the runner of the entity selected
BeginRun == BeginRunOf(entity) /\ UNCHANGED cli

\* a call of processAll<Entity>Files
StartRun ==
    /\ pc = "idle"
    /\ run < MaxRuns
    /\ BeginRun
    /\ UNCHANGED previous

\* the listing throws: processAll<Entity>Files logs and rethrows
ListFilesFails ==
    /\ pc = "idle"
    /\ run < MaxRuns
    /\ run' = run + 1
    /\ UNCHANGED previous
    /\ files' = <<>>
    /\ results' = <<>>
    /\ successful' = 0
    /\ failed' = 0
    /\ fi' = 0
    /\ fileName' = ""
    /\ UNCHANGED <<config, call, lister, cli, s3, database, entity, pc, locals>>

(***************************************************************************)
(* process<Entity>File, steps 1 and 2.                                     *)
(***************************************************************************)
\* mutant of CheckFileExists: the answer of the check is not looked at
CheckFileExistsIgnored ==
    /\ pc = "check"
    /\ pc' = "get"
    /\ UNCHANGED <<runner, locals>>
    /\ UNCHANGED <<config, call, lister, cli, s3, database>>

\* const exists = await checkFileExists(...); if (!exists) throw
CheckFileExists ==
    /\ pc = "check"
    /\ IF checkFileExists(s3, entity, fileName)
       THEN /\ pc' = "get"
            /\ UNCHANGED <<runner, locals>>
       ELSE FileThrows("File not found")
    /\ UNCHANGED <<config, call, lister, cli, s3, database>>

CheckFileExistsFails ==
    /\ pc = "check"
    /\ FileThrows("Error checking file existence")
    /\ UNCHANGED <<config, call, lister, cli, s3, database>>

\* mutant of GetFile: a file without rows is moved like any other
GetFileMovesEmpty ==
    /\ pc = "get"
    /\ SourceKey(entity, fileName) \in s3
    /\ rows' = parseCSV(entity, content[fileName])
    /\ pc' = IF content[fileName] = <<>> THEN "copy" ELSE "connect"
    /\ UNCHANGED <<runner, i, j, counters, error, txOutcome, mergeOutcome>>
    /\ UNCHANGED <<config, call, lister, cli, s3, database>>

\* getFile and parseCSV; an empty file returns the skipped result
GetFile ==
    /\ pc = "get"
    /\ SourceKey(entity, fileName) \in s3
    /\ IF content[fileName] = <<>>
       THEN FileReturns(TRUE)
       ELSE /\ rows' = parseCSV(entity, content[fileName])
            /\ pc' = "connect"
            /\ UNCHANGED <<runner, i, j, counters, error, txOutcome,
                           mergeOutcome>>
    /\ UNCHANGED <<config, call, lister, cli, s3, database>>

GetFileFails ==
    /\ pc = "get"
    /\ FileThrows("Error getting file from S3")
    /\ UNCHANGED <<config, call, lister, cli, s3, database>>


(***************************************************************************)
(* _processRows(rows, fileName, options).                                  *)
(***************************************************************************)
DbErrorMessage == "the server rejected the statement"
ThrownMessage == "the insert function threw"

\* const client = await this.dbService.pool.connect()
Connect ==
    /\ pc = "connect"
    /\ held' = held + 1
    /\ calls' = [k \in DOMAIN rows |-> <<>>]
    /\ pc' = "begin"
    /\ UNCHANGED <<config, call, lister, cli, s3, db, txdb, tx, runner, rows, i, j,
                   successCount, errorCount, csvRemark, missingFieldErrors,
                   error, txOutcome, mergeOutcome>>

\* pool.connect() rejects: nothing is checked out, the file fails
ConnectFails ==
    /\ pc = "connect"
    /\ FileThrows("connection failed")
    /\ UNCHANGED <<config, call, lister, cli, s3, database>>

\* await client.query('BEGIN')
Begin ==
    /\ pc = "begin"
    /\ tx' = "open"
    /\ txdb' = db[entity]
    /\ pc' = IF shouldTruncate(entity) THEN "truncate" ELSE "rows"
    /\ UNCHANGED <<config, call, lister, cli, s3, db, held, runner, locals>>

BeginFails ==
    /\ pc = "begin"
    /\ error' = "BEGIN failed"
    /\ pc' = "rollback"
    /\ UNCHANGED <<config, call, lister, cli, s3, database, runner, rows, i, j, counters,
                   txOutcome, mergeOutcome>>

\* mutant of truncateStage: the staging table is left as it is
truncateStageKeeps ==
    /\ pc = "truncate"
    /\ pc' = "rows"
    /\ UNCHANGED <<config, call, lister, cli, s3, db, txdb, tx, held, runner, locals>>

\* await this.dbService.truncateStage(client)
truncateStage ==
    /\ pc = "truncate"
    /\ txdb' = <<>>
    /\ pc' = "rows"
    /\ UNCHANGED <<config, call, lister, cli, s3, db, tx, held, runner, locals>>

truncateStageFails ==
    /\ pc = "truncate"
    /\ tx' = "aborted"
    /\ error' = "TRUNCATE failed"
    /\ pc' = "rollback"
    /\ UNCHANGED <<config, call, lister, cli, s3, db, txdb, held, runner, rows, i, j, counters,
                   txOutcome, mergeOutcome>>

\* mutant of Batch: the slice runs one row into the next batch
BatchOverlapping == SubSeq(rows, i + 1, Min(i + batchSize + 1, Len(rows)))

\* const batch = rows.slice(i, i + this.batchSize)
Batch == SubSeq(rows, i + 1, Min(i + batchSize, Len(rows)))

\* const row = batch[j]; const rowNumber = i + j + 1
Row == Batch[j + 1]
RowNumber == i + j + 1
MappedRow == mapFunction(entity, normalizeCSVRow(Row))
MissingFields == MissingFieldsOf(MappedRow, requiredFields(entity))

\* { ...row, reason, missingFields }
ErrorDetail(row, reason, missingFields) ==
    [success |-> FALSE, row |-> row, reason |-> reason,
     missingFields |-> missingFields]

\* csvRemark.push(mappedRow)
SuccessRemark(mappedRow) ==
    [success |-> TRUE, row |-> mappedRow, reason |-> "",
     missingFields |-> <<>>]

\* mutant of NextRow: the batch loop steps one row too far (i += batchSize + 1)
NextRowSkipping ==
    IF j + 1 < Len(Batch)
    THEN /\ j' = j + 1
         /\ i' = i
         /\ pc' = "rows"
    ELSE /\ j' = 0
         /\ i' = i + batchSize + 1
         /\ pc' = IF i + batchSize + 1 < Len(rows) THEN "rows" ELSE "commit"

\* j++ of the row loop, i += this.batchSize of the batch loop, and the way
\* out of both
NextRow ==
    IF j + 1 < Len(Batch)
    THEN /\ j' = j + 1
         /\ i' = i
         /\ pc' = "rows"
    ELSE /\ j' = 0
         /\ i' = i + batchSize
         /\ pc' = IF i + batchSize < Len(rows) THEN "rows" ELSE "commit"

\* mutant of PushRemark: the record is put in front (unshift for push)
PushRemarkFront(entry) == <<entry>> \o csvRemark

\* csvRemark.push(entry)
PushRemark(entry) == Append(csvRemark, entry)

\* mutant of RecordError: the error row is recorded but not counted
RecordErrorUncounted(reason, missingFields) ==
    /\ csvRemark' = PushRemark(ErrorDetail(Row, reason, missingFields))
    /\ missingFieldErrors' =
          Append(missingFieldErrors, ErrorDetail(Row, reason, missingFields))
    /\ UNCHANGED <<successCount, errorCount>>

\* errorCount++, and the error detail pushed on both lists
RecordError(reason, missingFields) ==
    /\ errorCount' = errorCount + 1
    /\ csvRemark' = PushRemark(ErrorDetail(Row, reason, missingFields))
    /\ missingFieldErrors' =
          Append(missingFieldErrors, ErrorDetail(Row, reason, missingFields))
    /\ UNCHANGED successCount

\* a row with missing required fields is recorded and skipped
RowMissingFields ==
    /\ pc = "rows"
    /\ MissingFields # <<>>
    /\ RecordError(MissingReason(MissingFields), MissingFields)
    /\ NextRow
    /\ UNCHANGED <<config, call, lister, cli, s3, database, runner, rows, calls, error,
                   txOutcome, mergeOutcome>>

\* what the INSERT of a table does to the transaction's view of it:
\* ON CONFLICT (columns) DO NOTHING keeps the view when the key is there
\* mutant of InsertInto: the INSERT has no ON CONFLICT clause to stop it
InsertIntoAppends(e, view, stored) == Append(view, stored)

InsertInto(e, view, stored) ==
    IF conflictColumns(e) # <<>>
       /\ \E k \in DOMAIN view : view[k].key = stored.key
    THEN view
    ELSE Append(view, stored)

\* insertFunction: the server executes the INSERT, { success: true }
RowInserted ==
    /\ pc = "rows"
    /\ MissingFields = <<>>
    /\ tx = "open"
    /\ txdb' = InsertInto(entity, txdb,
                  StoredRow(entity, fileName, run, RowNumber, MappedRow))
    /\ calls' = [calls EXCEPT ![RowNumber] = Append(@, "ok")]
    /\ csvRemark' = PushRemark(SuccessRemark(MappedRow))
    /\ successCount' = successCount + 1
    /\ NextRow
    /\ UNCHANGED <<config, call, lister, cli, s3, db, tx, held, runner, rows, errorCount,
                   missingFieldErrors, error, txOutcome, mergeOutcome>>

\* mutant of RowFails: the failure of the row leaves the row loop for the
\* catch block of the transaction
RowFailsEscapes(outcome, reason) ==
    /\ calls' = [calls EXCEPT ![RowNumber] = Append(@, outcome)]
    /\ error' = reason
    /\ pc' = "rollback"
    /\ UNCHANGED <<i, j, successCount, errorCount, csvRemark,
                   missingFieldErrors>>

\* what _processRows does with a row whose insert failed: the else branch
\* of result.success and the catch block of the row
RowFails(outcome, reason) ==
    /\ calls' = [calls EXCEPT ![RowNumber] = Append(@, outcome)]
    /\ RecordError(reason, <<>>)
    /\ NextRow
    /\ UNCHANGED error

\* insertFunction: the server rejects the INSERT (a constraint, a type, or
\* the transaction is already aborted); the adapter catches the error and
\* returns { success: false, errorRow }
RowRejected ==
    /\ pc = "rows"
    /\ MissingFields = <<>>
    /\ tx \in {"open", "aborted"}
    /\ tx' = "aborted"
    /\ RowFails("rejected", DbErrorMessage)
    /\ UNCHANGED <<config, call, lister, cli, s3, db, txdb, held, runner, rows, txOutcome,
                   mergeOutcome>>

\* insertFunction throws before it reaches the server: the catch block of
\* the row records error.message
RowThrows ==
    /\ pc = "rows"
    /\ MissingFields = <<>>
    /\ RowFails("threw", ThrownMessage)
    /\ UNCHANGED <<config, call, lister, cli, s3, database, runner, rows, txOutcome,
                   mergeOutcome>>

\* mutant of Commit: the COMMIT is sent but not awaited, the function
\* returns while the transaction is still open
CommitNotAwaited ==
    /\ pc = "commit"
    /\ txOutcome' = "committed"
    /\ held' = held - 1
    /\ pc' = IF callsMerge(entity) THEN "mergeConnect" ELSE "copy"
    /\ UNCHANGED <<config, call, lister, cli, s3, db, txdb, tx, runner, rows,
                   i, j, counters, error, mergeOutcome>>

\* await client.query('COMMIT'), then finally client.release() and return.
\* The server commits an open transaction and rolls an aborted one back;
\* the statement succeeds either way.
Commit ==
    /\ pc = "commit"
    /\ db' = IF tx = "open" THEN [db EXCEPT ![entity] = txdb] ELSE db
    /\ txOutcome' = IF tx = "open" THEN "committed" ELSE "rolledback"
    /\ tx' = "none"
    /\ txdb' = <<>>
    /\ held' = held - 1
    /\ pc' = IF callsMerge(entity) THEN "mergeConnect" ELSE "copy"
    /\ UNCHANGED <<config, call, lister, cli, s3, runner, rows, i, j, counters, error,
                   mergeOutcome>>

\* COMMIT fails: the server has ended the transaction without committing
CommitFails ==
    /\ pc = "commit"
    /\ tx' = "aborted"
    /\ error' = "COMMIT failed"
    /\ pc' = "rollback"
    /\ UNCHANGED <<config, call, lister, cli, s3, db, txdb, held, runner, rows, i, j, counters,
                   txOutcome, mergeOutcome>>

\* mutant of Rollback: the catch block ends the transaction by keeping
\* what it wrote
RollbackCommits ==
    /\ pc = "rollback"
    /\ db' = IF tx = "none" THEN db ELSE [db EXCEPT ![entity] = txdb]
    /\ tx' = "none"
    /\ txdb' = <<>>
    /\ held' = held - 1
    /\ FileThrows(error)
    /\ UNCHANGED <<config, call, lister, cli, s3>>

\* catch: await client.query('ROLLBACK'); throw error; finally release
Rollback ==
    /\ pc = "rollback"
    /\ tx' = "none"
    /\ txdb' = <<>>
    /\ held' = held - 1
    /\ FileThrows(error)
    /\ UNCHANGED <<config, call, lister, cli, s3, db>>

\* mutant of RollbackFails: the release is skipped when ROLLBACK throws
RollbackFailsHolding ==
    /\ pc = "rollback"
    /\ tx' = "none"
    /\ txdb' = <<>>
    /\ FileThrows("ROLLBACK failed")
    /\ UNCHANGED <<config, call, lister, cli, s3, db, held>>

\* ROLLBACK itself throws (the connection is gone, and the transaction with
\* it): that exception leaves the catch block; finally release
RollbackFails ==
    /\ pc = "rollback"
    /\ tx' = "none"
    /\ txdb' = <<>>
    /\ held' = held - 1
    /\ FileThrows("ROLLBACK failed")
    /\ UNCHANGED <<config, call, lister, cli, s3, db>>

(***************************************************************************)
(* callMergeProcedure (orders only).  What merge_orders_stage() does to    *)
(* the canonical table is outside the repository.                          *)
(***************************************************************************)
MergeConnect ==
    /\ pc = "mergeConnect"
    /\ held' = held + 1
    /\ pc' = "mergeCall"
    /\ UNCHANGED <<config, call, lister, cli, s3, db, txdb, tx, runner, locals>>

MergeConnectFails ==
    /\ pc = "mergeConnect"
    /\ FileThrows("connection failed")
    /\ UNCHANGED <<config, call, lister, cli, s3, database>>

callMergeProcedure ==
    /\ pc = "mergeCall"
    /\ held' = held - 1
    /\ mergeOutcome' = "merged"
    /\ pc' = "copy"
    /\ UNCHANGED <<config, call, lister, cli, s3, db, txdb, tx, runner, rows, i, j, counters,
                   error, txOutcome>>

callMergeProcedureFails ==
    /\ pc = "mergeCall"
    /\ held' = held - 1
    /\ FileThrows("merge failed")
    /\ UNCHANGED <<config, call, lister, cli, s3, db, txdb, tx>>

(***************************************************************************)
(* _moveToProcessed, the summary and the remark upload.                    *)
(***************************************************************************)
\* mutant of CopyObject: the copy is sent but not awaited, the delete
\* follows while the copy has not been made
CopyObjectNotAwaited ==
    /\ pc = "copy"
    /\ SourceKey(entity, fileName) \in s3
    /\ pc' = "delete"
    /\ UNCHANGED <<config, call, lister, cli, s3, database, runner, locals>>

\* CopyObjectCommand
CopyObject ==
    /\ pc = "copy"
    /\ SourceKey(entity, fileName) \in s3
    /\ s3' = s3 \cup {ProcessedKey(entity, fileName, run)}
    /\ pc' = "delete"
    /\ UNCHANGED <<config, call, lister, cli, database, runner, locals>>

CopyObjectFails ==
    /\ pc = "copy"
    /\ FileThrows("Error moving file")
    /\ UNCHANGED <<config, call, lister, cli, s3, database>>

\* DeleteObjectCommand on the source key
DeleteObject ==
    /\ pc = "delete"
    /\ s3' = s3 \ {SourceKey(entity, fileName)}
    /\ pc' = "summary"
    /\ UNCHANGED <<config, call, lister, cli, database, runner, locals>>

DeleteObjectFails ==
    /\ pc = "delete"
    /\ FileThrows("Error moving file")
    /\ UNCHANGED <<config, call, lister, cli, s3, database>>

\* mutant of appendSummaryToLog: the remark is made whatever errorCount is
appendSummaryToLogThenRemark ==
    /\ pc = "summary"
    /\ pc' = "remark"
    /\ UNCHANGED <<runner, locals>>
    /\ UNCHANGED <<config, call, lister, cli, s3, database>>

\* appendSummaryToLog; with no error row the file's result is returned
appendSummaryToLog ==
    /\ pc = "summary"
    /\ IF errorCount > 0
       THEN /\ pc' = "remark"
            /\ UNCHANGED <<runner, locals>>
       ELSE FileReturns(FALSE)
    /\ UNCHANGED <<config, call, lister, cli, s3, database>>

appendSummaryToLogFails ==
    /\ pc = "summary"
    /\ FileThrows("Error appending summary to log")
    /\ UNCHANGED <<config, call, lister, cli, s3, database>>

\* Object.keys of a record of the remark list: the mapped row's fields for
\* a stored row, the input row's headers with reason and missingFields for
\* an error row
ObjectKeys(entry) ==
    IF entry.success THEN DOMAIN entry.row
    ELSE {Join(entry.row[k][1]) : k \in DOMAIN entry.row}
             \cup {"reason", "missingFields"}

\* objectToCSV(data): the header line names Object.keys(data[0]); the line
\* of a record holds Object.values(record), one cell for each of that
\* record's own keys, given here by those keys
objectToCSV(data) ==
    IF data = <<>> THEN [headers |-> {}, rows |-> <<>>]
    ELSE [headers |-> ObjectKeys(data[1]),
          rows |-> [k \in DOMAIN data |-> ObjectKeys(data[k])]]

\* createRemarkCSV writes objectToCSV(csvRemark) to the local logs directory
createRemarkCSV ==
    /\ pc = "remark"
    /\ pc' = "upload"
    /\ UNCHANGED <<config, call, lister, cli, s3, database, runner, locals>>

createRemarkCSVFails ==
    /\ pc = "remark"
    /\ FileThrows("Error createRemarkCSV")
    /\ UNCHANGED <<config, call, lister, cli, s3, database>>

\* _uploadLogFile, then the file's result is returned
uploadLogFile ==
    /\ pc = "upload"
    /\ s3' = s3 \cup {LogKey(entity, fileName, run)}
    /\ FileReturns(FALSE)
    /\ UNCHANGED <<config, call, lister, cli, database>>

uploadLogFileFails ==
    /\ pc = "upload"
    /\ FileThrows("Error uploading log file to S3")
    /\ UNCHANGED <<config, call, lister, cli, s3, database>>

\* the steps of process<Entity>File
FileNext ==
    \/ CheckFileExists
    \/ CheckFileExistsFails
    \/ GetFile
    \/ GetFileFails
    \/ Connect
    \/ ConnectFails
    \/ Begin
    \/ BeginFails
    \/ truncateStage
    \/ truncateStageFails
    \/ RowMissingFields
    \/ RowInserted
    \/ RowRejected
    \/ RowThrows
    \/ Commit
    \/ CommitFails
    \/ Rollback
    \/ RollbackFails
    \/ MergeConnect
    \/ MergeConnectFails
    \/ callMergeProcedure
    \/ callMergeProcedureFails
    \/ CopyObject
    \/ CopyObjectFails
    \/ DeleteObject
    \/ DeleteObjectFails
    \/ appendSummaryToLog
    \/ appendSummaryToLogFails
    \/ createRemarkCSV
    \/ createRemarkCSVFails
    \/ uploadLogFile
    \/ uploadLogFileFails

Next ==
    \/ StartRun
    \/ ListFilesFails
    \/ FileNext

Spec == Init /\ [][Next]_vars

(***************************************************************************)
(* A run over two files: a.csv and b.csv wait under the entity's prefix,   *)
(* each with at most one row.                                              *)
(***************************************************************************)
TwoFilesInit ==
    /\ batchSize = 1
    /\ entity \in Entities
    /\ content \in [FileNames -> SeqsUpTo(RowKinds, 1)]
    /\ s3 = {SourceKey(entity, f) : f \in FileNames} \cup FolderMarkers(entity)
    /\ InitialTables
    /\ Fresh
    /\ NoCall
    /\ NoListing
    /\ NoCommand

TwoFilesSpec == TwoFilesInit /\ [][Next]_vars

(***************************************************************************)
(* A listed file that is gone when its turn comes: between the listing and *)
(* the existence check another actor deletes the source object of the      *)
(* current file or of a file still to come.                                *)
(***************************************************************************)
\* the environment: DeleteObject on a listed source key by another client
ObjectVanishes ==
    /\ pc = "check"
    /\ \E k \in fi..Len(files) :
          /\ SourceKey(entity, files[k]) \in s3
          /\ s3' = s3 \ {SourceKey(entity, files[k])}
    /\ UNCHANGED <<config, call, lister, cli, database, runner, pc, locals>>

VanishNext ==
    \/ Next
    \/ ObjectVanishes

VanishSpec == TwoFilesInit /\ [][VanishNext]_vars

(***************************************************************************)
(* The same file processed again: after a run an outside actor puts the    *)
(* file back under the source prefix, with the same name and the same      *)
(* rows, and the entity's runner is called once more.                      *)
(***************************************************************************)
RerunInit ==
    /\ batchSize = 1
    /\ entity \in Entities
    /\ \E body \in SeqsUpTo(RowKinds, 2) :
          content = [f \in FileNames |-> IF f = "a.csv" THEN body ELSE <<>>]
    /\ s3 = {SourceKey(entity, "a.csv")} \cup FolderMarkers(entity)
    /\ InitialTables
    /\ Fresh
    /\ NoCall
    /\ NoListing
    /\ NoCommand

\* the environment: the file is uploaded again
PutObject ==
    /\ pc = "idle"
    /\ run >= 1
    /\ SourceKey(entity, "a.csv") \notin s3
    /\ s3' = s3 \cup {SourceKey(entity, "a.csv")}
    /\ UNCHANGED <<config, call, lister, cli, database, runner, pc, locals>>

\* one more call of processAll<Entity>Files after the runs of StartRun
Rerun ==
    /\ pc = "idle"
    /\ run >= 1
    /\ run <= MaxRuns
    /\ BeginRun
    /\ previous' = [run |-> run, results |-> results, db |-> db]

RerunNext ==
    \/ Next
    \/ PutObject
    \/ Rerun

RerunSpec == RerunInit /\ [][RerunNext]_vars

(***************************************************************************)
(* _listFiles, response by response.  The bucket answers ListObjectsV2     *)
(* with the keys under the prefix in key order, maxKeys at a time; the     *)
(* continuation token of a truncated response is the place of the next     *)
(* key.                                                                    *)
(***************************************************************************)
MaxKeys == 2

\* keys an entity's prefix may hold, in key order: the prefix marker, two
\* source files, a .csv object and a remark under logs/, an object that is
\* no .csv, and a processed copy
KeyOrder(e) ==
    <<Key(e, "", 0, "", 0), SourceKey(e, "a.csv"), SourceKey(e, "b.csv"),
      Key(e, "logs/", 0, "a.csv", 0), LogKey(e, "a.csv", 1),
      Key(e, "", 0, "notes.txt", 0), ProcessedKey(e, "a.csv", 1)>>

\* the keys of the bucket under the entity's prefix, in key order
ListObjects(bucket, e) ==
    LET present(key) == key \in bucket
    IN  SelectSeq(KeyOrder(e), present)

\* the response to ListObjectsV2 with the given ContinuationToken
Response(bucket, e, token) ==
    LET all == ListObjects(bucket, e)
        first == IF token = 0 THEN 1 ELSE token
        last == Min(first + maxKeys - 1, Len(all))
    IN  [Contents |-> SubSeq(all, first, last),
         IsTruncated |-> last < Len(all),
         NextContinuationToken |-> last + 1]

\* obj.Key.replace(sourcePath, '')
RelativeName(key) ==
    [path |-> key.path, pre |-> key.pre, name |-> key.name, suf |-> key.suf]

\* response.Contents.filter(...).map(...)
EligibleNames(e, contents) ==
    LET eligible(key) == Listed(e, key)
        kept == SelectSeq(contents, eligible)
    IN  [n \in DOMAIN kept |-> RelativeName(kept[n])]

ListInit ==
    /\ batchSize = 1
    /\ entity \in Entities
    /\ content = [f \in FileNames |-> <<>>]
    /\ s3 \in SUBSET Range(KeyOrder(entity))
    /\ InitialTables
    /\ Fresh
    /\ NoCall
    /\ NoCommand
    /\ maxKeys \in 1..MaxKeys
    /\ allFiles = <<>>
    /\ continuationToken = 0
    /\ listing = "off"

\* const allFiles = []; let continuationToken = undefined
ListStart ==
    /\ listing = "off"
    /\ allFiles' = <<>>
    /\ continuationToken' = 0
    /\ listing' = "send"
    /\ UNCHANGED <<config, call, s3, database, runner, pc, locals, cli, maxKeys>>

\* mutant of ListPage: one request and no loop
ListPageOnce ==
    /\ listing = "send"
    /\ allFiles' = allFiles \o
          EligibleNames(entity,
                        Response(s3, entity, continuationToken).Contents)
    /\ continuationToken' = 0
    /\ listing' = "done"
    /\ UNCHANGED <<config, call, s3, database, runner, pc, locals, cli, maxKeys>>

\* one pass of the do..while loop: send, filter, push, take the token
ListPage ==
    /\ listing = "send"
    /\ LET response == Response(s3, entity, continuationToken)
       IN  /\ allFiles' = allFiles \o EligibleNames(entity, response.Contents)
           /\ continuationToken' =
                 IF response.IsTruncated
                 THEN response.NextContinuationToken ELSE 0
           /\ listing' = IF response.IsTruncated THEN "send" ELSE "done"
    /\ UNCHANGED <<config, call, s3, database, runner, pc, locals, cli, maxKeys>>

\* client.send rejects: the catch block logs and rethrows
ListPageFails ==
    /\ listing = "send"
    /\ listing' = "threw"
    /\ UNCHANGED <<config, call, s3, database, runner, pc, locals, cli, maxKeys,
                   allFiles, continuationToken>>

ListNext ==
    \/ ListStart
    \/ ListPage
    \/ ListPageFails

\* every await of _listFiles settles
ListSpec == ListInit /\ [][ListNext]_vars /\ WF_vars(ListNext)

\* ------------------------------------------------------------------------
\* The command line: node index.js [command]
\* ------------------------------------------------------------------------

\* the order in which processAllFiles awaits the six runners
EntityOrder ==
    <<"orders", "labProduct", "labPractice", "labProductMapping",
      "labPracticeMapping", "dentalGroups">>

\* the runner each case of the dispatcher's switch calls
EntityOfCommand ==
    [c \in {"orders", "products", "practices", "mappings",
            "practice-mappings", "dental-groups"} |->
        CASE c = "orders" -> "orders"
          [] c = "products" -> "labProduct"
          [] c = "practices" -> "labPractice"
          [] c = "mappings" -> "labProductMapping"
          [] c = "practice-mappings" -> "labPracticeMapping"
          [] c = "dental-groups" -> "dentalGroups"]

EntityCommands == DOMAIN EntityOfCommand

\* 'all', and no argument at all, both call processAllFiles
AllCommands == {"all", ""}

\* any other argument is taken as the name of one orders file
Commands == EntityCommands \cup AllCommands \cup {"a.csv"}

\* the entities whose source folder holds a file when the process starts
Stocked == {"orders", "labProduct"}

\* the files waiting in an entity's source folder: two for orders, one for
\* the lab products
StockedFiles(e) == IF e = "orders" THEN {"a.csv", "b.csv"} ELSE {"a.csv"}

CliInit ==
    /\ batchSize = 1
    /\ entity = "orders"
    /\ \E body \in SeqsUpTo(RowKinds, 1) :
           content = [f \in FileNames |-> body]
    /\ s3 = UNION {{SourceKey(e, f) : f \in StockedFiles(e)}
                        \cup FolderMarkers(e) : e \in Stocked}
    /\ InitialTables
    /\ Fresh
    /\ NoCall
    /\ NoListing
    /\ command \in Commands
    /\ ei = 0
    /\ totals = [processed |-> 0, successful |-> 0, failed |-> 0]
    /\ exitCode = Running
    /\ fatal = ""

\* case '<entity command>': await etlProcessor.processAll<Entity>Files()
DispatchEntity ==
    /\ pc = "idle"
    /\ ei = 0
    /\ command \in EntityCommands
    /\ ei' = 1
    /\ BeginRunOf(EntityOfCommand[command])
    /\ UNCHANGED <<command, totals, exitCode, fatal, previous>>

\* case 'all' and the default without argument: processAllFiles awaits the
\* first runner
DispatchAll ==
    /\ pc = "idle"
    /\ ei = 0
    /\ command \in AllCommands
    /\ ei' = 1
    /\ BeginRunOf(EntityOrder[1])
    /\ UNCHANGED <<command, totals, exitCode, fatal, previous>>

\* the default with an argument: await etlProcessor.processOrdersFile(command)
DispatchFile ==
    /\ pc = "idle"
    /\ ei = 0
    /\ command \notin EntityCommands \cup AllCommands
    /\ ei' = 1
    /\ run' = run + 1
    /\ entity' = "orders"
    /\ files' = <<command>>
    /\ results' = <<>>
    /\ successful' = 0
    /\ failed' = 0
    /\ fi' = 1
    /\ fileName' = command
    /\ pc' = "check"
    /\ UNCHANGED <<config, call, lister, s3, database, locals>>
    /\ UNCHANGED <<command, totals, exitCode, fatal, previous>>

\* the runner about to be awaited
Awaited ==
    IF command \in EntityCommands THEN EntityOfCommand[command]
    ELSE EntityOrder[ei + 1]

\* listing the awaited runner's folder rejects: the runner's outer catch logs
\* and rethrows, processAllFiles has no catch, and the dispatcher's catch
\* exits with 1
RunnerThrows ==
    /\ pc = "idle"
    /\ exitCode = Running
    /\ \/ ei = 0 /\ command \in EntityCommands \cup AllCommands
       \/ ei \in 1..(Len(EntityOrder) - 1) /\ command \in AllCommands
    /\ entity' = Awaited
    /\ fatal' = "Error listing files"
    /\ exitCode' = 1
    /\ pc' = "exited"
    /\ UNCHANGED <<config, call, lister, s3, database, locals, command, ei, totals>>
    /\ UNCHANGED <<run, files, fi, results, successful, failed, fileName,
                   previous>>

\* mutant of Total: the totals are those of the runner that returned last
TotalOfLast ==
    [processed |-> Len(files), successful |-> successful, failed |-> failed]

\* the totals so far plus what the runner that just returned reports:
\* { processed, successful, failed }
Total ==
    [processed |-> totals.processed + Len(files),
     successful |-> totals.successful + successful,
     failed |-> totals.failed + failed]

\* processAllFiles: one runner has returned and the next one is awaited
NextEntity ==
    /\ pc = "idle"
    /\ command \in AllCommands
    /\ ei \in 1..(Len(EntityOrder) - 1)
    /\ totals' = Total
    /\ ei' = ei + 1
    /\ BeginRunOf(EntityOrder[ei + 1])
    /\ UNCHANGED <<command, exitCode, fatal, previous>>

\* processAllFiles: the last runner has returned; the totals are summed and
\* control returns to the dispatcher
AllFilesReturns ==
    /\ pc = "idle"
    /\ command \in AllCommands
    /\ ei = Len(EntityOrder)
    /\ totals' = Total
    /\ pc' = "shutdown"
    /\ UNCHANGED <<config, call, lister, s3, database, locals, runner>>
    /\ UNCHANGED <<command, ei, exitCode, fatal>>

\* an entity command's runner has returned to the dispatcher
RunnerReturns ==
    /\ pc = "idle"
    /\ command \in EntityCommands
    /\ ei = 1
    /\ totals' = Total
    /\ pc' = "shutdown"
    /\ UNCHANGED <<config, call, lister, s3, database, locals, runner>>
    /\ UNCHANGED <<command, ei, exitCode, fatal>>

\* mutant of FileCommandEnds: the file's error does not reach the dispatcher
FileCommandEndsQuietly ==
    /\ pc = "idle"
    /\ command \notin EntityCommands \cup AllCommands
    /\ ei = 1
    /\ pc' = "shutdown"
    /\ UNCHANGED <<exitCode, fatal>>
    /\ UNCHANGED <<config, call, lister, s3, database, locals, runner>>
    /\ UNCHANGED <<command, ei, totals>>

\* processOrdersFile(command) has returned to the dispatcher, or has thrown
\* into its catch block
FileCommandEnds ==
    /\ pc = "idle"
    /\ command \notin EntityCommands \cup AllCommands
    /\ ei = 1
    /\ IF results[1].success
       THEN pc' = "shutdown" /\ UNCHANGED <<exitCode, fatal>>
       ELSE pc' = "exited" /\ exitCode' = 1 /\ fatal' = results[1].error
    /\ UNCHANGED <<config, call, lister, s3, database, locals, runner>>
    /\ UNCHANGED <<command, ei, totals>>

\* shutdown(): the pool closes and the process exits with 0
Shutdown ==
    /\ pc = "shutdown"
    /\ pc' = "exited"
    /\ exitCode' = 0
    /\ UNCHANGED <<config, call, lister, s3, database, locals, runner>>
    /\ UNCHANGED <<command, ei, totals, fatal>>

\* shutdown(): dbService.close() rejects inside the dispatcher's try
ShutdownFails ==
    /\ pc = "shutdown"
    /\ pc' = "exited"
    /\ exitCode' = 1
    /\ fatal' = "close failed"
    /\ UNCHANGED <<config, call, lister, s3, database, locals, runner>>
    /\ UNCHANGED <<command, ei, totals>>

CliNext ==
    \/ DispatchEntity
    \/ DispatchAll
    \/ DispatchFile
    \/ RunnerThrows
    \/ NextEntity
    \/ AllFilesReturns
    \/ RunnerReturns
    \/ FileCommandEnds
    \/ Shutdown
    \/ ShutdownFails
    \/ FileNext

CliSpec == CliInit /\ [][CliNext]_vars

(***************************************************************************)
(* Functions called on their own.  The pipeline is idle and empty; arg is  *)
(* the argument and out collects the results.                              *)
(***************************************************************************)
Quiet ==
    /\ batchSize = 1
    /\ entity = "orders"
    /\ content = [f \in FileNames |-> <<>>]
    /\ s3 = {}
    /\ InitialTables
    /\ Fresh
    /\ NoListing
    /\ NoCommand

\* ------------------------------------------------------------------------
\* normalizeCSVRow on rows with up to MaxEntries columns
\* ------------------------------------------------------------------------
MaxEntries == 3

\* header texts as csv-parser hands them over: "Case ID", "caseid",
\* " CASE-id ", "a-b c", "qty2", "2", " 2", " 1" and "#"
HeaderPool ==
    {<<"C","a","s","e"," ","I","D">>,
     <<"c","a","s","e","i","d">>,
     <<" ","C","A","S","E","-","i","d"," ">>,
     <<"a","-","b"," ","c">>,
     <<"q","t","y","2">>,
     <<"2">>,
     <<" ","2">>,
     <<" ","1">>,
     <<"#">>}

\* the cell of the k-th column
CellPool == <<"v1", "v2", "v3", "v4", "v5">>

\* the column a cell was read from
ColumnOf(value) == CHOOSE k \in DOMAIN CellPool : Str(CellPool[k]) = value

\* the objects csv-parser can emit for a record of up to n columns with
\* distinct headers: it assigns row[header] = cell column by column, and
\* Object.entries visits the result in own-property order
RawRows(n) ==
    LET headers == {h \in SeqsUpTo(HeaderPool, n) :
                       \A k, m \in DOMAIN h : k # m => h[k] # h[m]}
        rowOf(h) == [k \in DOMAIN h |-> <<h[k], Str(CellPool[k])>>]
    IN  {OwnEntries(rowOf(h)) : h \in headers}

NormalizeInit ==
    /\ Quiet
    /\ arg \in RawRows(MaxEntries)
    /\ out = <<>>

\* normalizeCSVRow(arg), then normalizeCSVRow of what it returned
Normalize ==
    /\ Len(out) < 2
    /\ out' = Append(out, normalizeCSVRow(IF out = <<>> THEN arg
                                          ELSE out[Len(out)]))
    /\ UNCHANGED <<config, arg, s3, database, runner, pc, locals, lister, cli>>

NormalizeNext == Normalize

NormalizeSpec == NormalizeInit /\ [][NormalizeNext]_vars

\* ------------------------------------------------------------------------
\* One row through normalizeCSVRow, the entity's map function and the
\* required-field filter of _processRows
\* ------------------------------------------------------------------------
\* a column the entity's file may carry besides the required ones
OptionalHeader(e) ==
    CASE e = "orders" -> <<"S","h","i","p","p","i","n","g"," ","D","a","t","e">>
      [] e = "labProduct" -> <<"S","u","b"," ","C","a","t","e","g","o","r","y">>
      [] e = "labPractice" ->
            <<"D","e","n","t","a","l"," ","G","r","o","u","p"," ","N","a","m","e">>
      [] e = "labProductMapping" -> <<"N","o","t","e","s">>
      [] e = "labPracticeMapping" -> <<"N","o","t","e","s">>
      [] e = "dentalGroups" ->
            <<"C","e","n","t","r","a","l","i","z","e","d"," ",
              "B","i","l","l","i","n","g">>

\* the columns of a form: the headers of the entity's file and one more
FormHeaders(e) == Append(Headers(e), OptionalHeader(e))

\* the property of the mapped row each column of the form is mapped to
FormFields(e) ==
    CASE e = "orders" ->
            <<"submissiondate", "casedate", "caseid", "productid",
              "quantity", "customerid", "shippingdate">>
      [] e = "labProduct" ->
            <<"incisive_id", "incisive_name", "category", "sub_category">>
      [] e = "labPractice" ->
            <<"practice_id", "dental_group_id", "dental_group_name">>
      [] e = "labProductMapping" ->
            <<"lab_id", "lab_product_id", "incisive_product_id", "">>
      [] e = "labPracticeMapping" ->
            <<"lab_id", "practice_id", "lab_practice_id", "">>
      [] e = "dentalGroups" ->
            <<"dental_group_id", "name", "centralized_billing">>

\* how the map function reads the column: as text (x || null), as a number
\* (Number or parseInt) or as the boolean of dental groups
FormKinds(e) ==
    CASE e = "orders" ->
            <<"text", "text", "text", "text", "number", "text", "text">>
      [] e = "labProduct" -> <<"number", "text", "text", "text">>
      [] e = "labPractice" -> <<"number", "number", "text">>
      [] e = "labProductMapping" -> <<"number", "text", "number", "text">>
      [] e = "labPracticeMapping" -> <<"number", "number", "text", "text">>
      [] e = "dentalGroups" -> <<"number", "text", "boolean">>

\* what a record holds in a column: a value of the column's kind, letters
\* where a number or a boolean is expected, nothing between the commas, or
\* the file has no such column
Cells(kind) ==
    IF kind = "text" THEN {"value", "empty", "absent"}
    ELSE {"value", "letters", "empty", "absent"}

CellText(kind, cell) ==
    CASE cell = "empty" -> ""
      [] cell = "letters" -> "abc"
      [] cell = "value" /\ kind = "text" -> "7"
      [] cell = "value" /\ kind = "number" -> "7"
      [] cell = "value" /\ kind = "boolean" -> "true"

Forms(e) ==
    {cells \in [DOMAIN FormHeaders(e) -> {"value", "letters", "empty", "absent"}] :
        \A k \in DOMAIN cells : cells[k] \in Cells(FormKinds(e)[k])}

\* the object csv-parser emits for the record of a form
FormRow(e, cells) ==
    LET present(k) == cells[k] # "absent"
        columns == SelectSeq([k \in DOMAIN cells |-> k], present)
    IN  [n \in DOMAIN columns |->
            <<FormHeaders(e)[columns[n]],
              Str(CellText(FormKinds(e)[columns[n]], cells[columns[n]]))>>]

ValidateInit ==
    /\ Quiet
    /\ \E e \in Entities : \E cells \in Forms(e) :
          arg = [entity |-> e, cells |-> cells, row |-> FormRow(e, cells)]
    /\ out = <<>>

\* the body of the row loop up to the branch on missingFields.length
Validate ==
    /\ out = <<>>
    /\ LET mappedRow == mapFunction(arg.entity, normalizeCSVRow(arg.row))
           missingFields ==
               MissingFieldsOf(mappedRow, requiredFields(arg.entity))
       IN  out' = <<[mappedRow |-> mappedRow,
                     missingFields |-> missingFields,
                     reason |-> IF missingFields # <<>>
                                THEN MissingReason(missingFields)
                                ELSE ""]>>
    /\ UNCHANGED <<config, arg, s3, database, runner, pc, locals, lister, cli>>

\* the parameters insertStageRow binds for caseid, productid and
\* quantity: row.caseid ? parseInt(row.caseid, 10) : null,
\* row.productid || null, row.quantity ? parseInt(row.quantity, 10) : null
\* (parseInt of a number is the number)
insertStageRowValues(row) ==
    LET int(v) == IF IsNum(v) THEN v ELSE parseInt(v)
    IN  [c \in OrdersColumns |->
            CASE c = "caseid" ->
                    IF Truthy(row.caseid) THEN int(row.caseid) ELSE Null
              [] c = "quantity" ->
                    IF Truthy(row.quantity) THEN int(row.quantity) ELSE Null
              [] OTHER -> Or(row[c], Null)]

\* the values an entity's insert function binds: the reference inserts
\* bind the mapped row's fields as they are
InsertValues(e, row) ==
    IF e = "orders" THEN insertStageRowValues(row) ELSE row

\* the else branch of missingFields.length > 0: the insert function is
\* called; the server accepts the INSERT (successCount++) or rejects it
\* (errorCount++)
InsertRow ==
    /\ Len(out) = 1
    /\ out[1].missingFields = <<>>
    /\ \E success \in BOOLEAN :
          out' = Append(out,
                    [values |-> InsertValues(arg.entity, out[1].mappedRow),
                     success |-> success,
                     counted |-> IF success THEN "successCount"
                                 ELSE "errorCount"])
    /\ UNCHANGED <<config, arg, s3, database, runner, pc, locals, lister, cli>>

ValidateNext ==
    \/ Validate
    \/ InsertRow

ValidateSpec == ValidateInit /\ [][ValidateNext]_vars

\* ------------------------------------------------------------------------
\* checkFileExists and getFile on buckets that hold other keys around the
\* source key
\* ------------------------------------------------------------------------
\* a key that continues sourcePath + fileName, such as a.csv.bak
ContinuedKey(e, f) == Key(e, "", 0, f, 1)

\* the keys a bucket can hold around the source keys of a.csv and b.csv
KeyPool ==
    {SourceKey("orders", "a.csv"), SourceKey("orders", "b.csv"),
     ContinuedKey("orders", "a.csv"), ProcessedKey("orders", "a.csv", 1),
     LogKey("orders", "a.csv", 1), SourceKey("labProduct", "a.csv"),
     Key("orders", "", 0, "", 0), Key("orders", "processed/", 0, "", 0)}

ExistsInit ==
    /\ batchSize = 1
    /\ entity = "orders"
    /\ content = [f \in FileNames |-> <<>>]
    /\ s3 \in SUBSET KeyPool
    /\ InitialTables
    /\ Fresh
    /\ NoListing
    /\ NoCommand
    /\ arg \in [fileName : FileNames]
    /\ out = <<>>

\* const exists = await this.s3Service.checkFileExists(fileName, sourcePath)
CallCheckFileExists ==
    /\ out = <<>>
    /\ out' = <<[call |-> "checkFileExists",
                 returned |-> IF checkFileExists(s3, entity, arg.fileName)
                              THEN "true" ELSE "false"]>>
    /\ UNCHANGED <<config, arg, s3, database, runner, pc, locals, lister, cli>>

\* if exists, await this.s3Service.getFile(fileName, sourcePath): GetObject
\* on the exact key
CallGetFile ==
    /\ Len(out) = 1
    /\ out[1].returned = "true"
    /\ out' = Append(out,
                 [call |-> "getFile",
                  returned |-> IF SourceKey(entity, arg.fileName) \in s3
                               THEN "stream" ELSE "NoSuchKey"])
    /\ UNCHANGED <<config, arg, s3, database, runner, pc, locals, lister, cli>>

ExistsNext == CallCheckFileExists \/ CallGetFile

ExistsSpec == ExistsInit /\ [][ExistsNext]_vars

\* ------------------------------------------------------------------------
\* The batch loop of _processRows under every BATCH_SIZE setting:
\* for (let i = 0; i < rows.length; i += this.batchSize)
\* ------------------------------------------------------------------------
\* process.env[name] || defaultValue
getOptionalEnv(value, defaultValue) == Or(value, defaultValue)

\* what BATCH_SIZE can be in the environment: unset, empty, "0", "1", "2",
\* "2x" and "abc"
BatchSizeSettings ==
    {Undefined, Str(""), Str("0"), Str("1"), Str("2"), Str("2x"), Str("abc")}

\* config.processing.batchSize
ConfiguredBatchSize(setting) == parseInt(getOptionalEnv(setting, Str("100")))

\* a + b on numbers
Plus(a, b) == IF a = NaN \/ b = NaN THEN NaN ELSE Num(a.n + b.n)

\* a < n on numbers: false when a is NaN
Less(a, n) == a # NaN /\ a.n < n

\* the index array.slice makes of a bound: NaN is 0, a negative bound
\* counts from the end, and the result is clamped to 0..length
SliceIndex(v, length) ==
    IF v = NaN THEN 0
    ELSE IF v.n < 0 THEN (IF length + v.n < 0 THEN 0 ELSE length + v.n)
    ELSE Min(v.n, length)

\* array.slice(start, end)
slice(array, start, end) ==
    SubSeq(array, SliceIndex(start, Len(array)) + 1,
           SliceIndex(end, Len(array)))

\* a CSVprocessor constructed under a BATCH_SIZE setting is handed the
\* rows of a file that is not empty; out is the loop's i and the rows the
\* inner loop has visited so far
BatchLoopInit ==
    /\ Quiet
    /\ \E setting \in BatchSizeSettings, body \in FileContents \ {<<>>} :
          arg = [BATCH_SIZE |-> setting,
                 batchSize |-> ConfiguredBatchSize(setting),
                 rows |-> parseCSV(entity, body)]
    /\ out = [i |-> Num(0), visited |-> <<>>, done |-> FALSE]

\* one iteration of the outer loop: the test, the slice, the inner loop
\* over the batch and i += this.batchSize
BatchIteration ==
    /\ ~out.done
    /\ Less(out.i, Len(arg.rows))
    /\ out' = [i |-> Plus(out.i, arg.batchSize),
               visited |-> out.visited
                   \o slice(arg.rows, out.i, Plus(out.i, arg.batchSize)),
               done |-> FALSE]
    /\ UNCHANGED <<config, arg, s3, database, runner, pc, locals, lister, cli>>

\* the test i < rows.length fails and the loop is left for COMMIT
BatchLoopEnds ==
    /\ ~out.done
    /\ ~Less(out.i, Len(arg.rows))
    /\ out' = [out EXCEPT !.done = TRUE]
    /\ UNCHANGED <<config, arg, s3, database, runner, pc, locals, lister, cli>>

BatchLoopNext == BatchIteration \/ BatchLoopEnds

\* the loop runs as long as it can take a step
BatchLoopSpec ==
    BatchLoopInit /\ [][BatchLoopNext]_vars /\ WF_vars(BatchLoopNext)

(***************************************************************************)
(* Properties.                                                             *)
(***************************************************************************)
\* _processRows has returned normally and process<Entity>File goes on
AfterProcessRows ==
    pc \in {"mergeConnect", "mergeCall", "copy", "delete", "summary",
            "remark", "upload"}

\* the row loop has run to its end
RowLoopDone == pc = "commit" \/ AfterProcessRows

\* a value that counts as missing: null, undefined or the empty string
Blank(v) == v \in {Null, Undefined, Str("")}

\* the rows a file of the entity can hold
PoolRows(e) == {RawRow(e, kind) : kind \in RowKinds}

\* every such row normalized and mapped, computed once
MappedPool ==
    [e \in Entities |->
        [row \in PoolRows(e) |-> mapFunction(e, normalizeCSVRow(row))]]

\* the mapped form of a raw row lacks one of the entity's required fields
LacksRequired(e, row) ==
    LET mapped == MappedPool[e][row]
    IN  \E n \in DOMAIN requiredFields(e) :
            \/ requiredFields(e)[n] \notin DOMAIN mapped
            \/ Blank(mapped[requiredFields(e)[n]])

\* the rows of the current file+run in a table
RowsOfRun(table, f) ==
    {k \in DOMAIN table : table[k].file = f /\ table[k].run = run}

\* C1: when _processRows returns normally, successCount + errorCount is the
\* number of input rows, and so it is in the result the file returns.
C1_EveryRowOneOutcome ==
    /\ AfterProcessRows => successCount + errorCount = Len(rows)
    /\ \A n \in DOMAIN results :
           results[n].success =>
               results[n].successCount + results[n].errorCount
                   = results[n].rowCount

\* C1 witness: _processRows has returned on a file with a stored row and a
\* row whose insert failed
C1_Witness ==
    /\ AfterProcessRows
    /\ Len(rows) = 2
    /\ \E k \in DOMAIN calls : calls[k] = <<"ok">>
    /\ \E k \in DOMAIN calls : calls[k] \in {<<"rejected">>, <<"threw">>}

\* C2: when the merge procedure fails after the orders rows were inserted,
\* the staging table holds none of that run's rows.
C2_MergeFailureRollsBack ==
    \A n \in DOMAIN results :
        results[n].error = "merge failed" =>
            RowsOfRun(db["orders"], results[n].file) = {}

\* C3: the copy to the processed prefix is attempted only once the row
\* loop has completed and its transaction committed and, for orders, the
\* merge procedure succeeded.
C3_MoveOnlyAfterCommit ==
    pc \in {"copy", "delete"} =>
        /\ Len(csvRemark) = Len(rows)
        /\ txOutcome = "committed"
        /\ callsMerge(entity) => mergeOutcome = "merged"

\* C4: after a file was processed successfully its source object is still
\* in the bucket, next to the copy under the processed prefix.
C4_SourceObjectKept ==
    \A n \in DOMAIN results :
        (results[n].success /\ ~results[n].skipped) =>
            /\ ProcessedKey(entity, results[n].file, run) \in s3
            /\ SourceKey(entity, results[n].file) \in s3

\* the k-th outcome record was made from the k-th input row
RemarkOfRow(k) ==
    IF csvRemark[k].success
    THEN csvRemark[k].row = MappedPool[entity][rows[k]]
    ELSE csvRemark[k].row = rows[k]

\* C5: csvRemark holds one record per input row, in input order: at any
\* time its k-th record is the k-th row's, and when the row loop is done
\* it is as long as the input.
C5_OneRemarkPerRowInOrder ==
    /\ Len(csvRemark) <= Len(rows)
    /\ \A k \in DOMAIN csvRemark : RemarkOfRow(k)
    /\ RowLoopDone => Len(csvRemark) = Len(rows)

\* C5 witness: the row loop is done on two different rows, one stored and
\* one in error
C5_Witness ==
    /\ RowLoopDone
    /\ Len(rows) = 2
    /\ rows[1] # rows[2]
    /\ csvRemark[1].success # csvRemark[2].success

\* C6: a row whose mapped form lacks a required field is recorded as a
\* validation error naming the fields, and the insert function is never
\* called for it.
C6_MissingFieldNoInsert ==
    \A k \in DOMAIN calls :
        LacksRequired(entity, rows[k]) =>
            /\ calls[k] = <<>>
            /\ k <= Len(csvRemark) =>
                   /\ ~csvRemark[k].success
                   /\ csvRemark[k].missingFields # <<>>
                   /\ csvRemark[k].reason =
                          MissingReason(csvRemark[k].missingFields)

\* C6 witness: a row lacking a required field has been handled and the
\* row after it was stored
C6_Witness ==
    /\ Len(csvRemark) = 2
    /\ LacksRequired(entity, rows[1])
    /\ ~csvRemark[1].success
    /\ calls[2] = <<"ok">>

\* C7: the insert function is called once for every row with all its
\* required fields: never twice, and once the row has been handled, once.
C7_ValidRowInsertedOnce ==
    \A k \in DOMAIN calls :
        ~LacksRequired(entity, rows[k]) =>
            /\ Len(calls[k]) <= 1
            /\ (k <= Len(csvRemark) \/ RowLoopDone) => Len(calls[k]) = 1

\* C7 witness: the row loop is done on two valid rows in two batches
C7_Witness ==
    /\ RowLoopDone
    /\ batchSize = 1
    /\ Len(rows) = 2
    /\ \A k \in DOMAIN rows : ~LacksRequired(entity, rows[k])
    /\ \A k \in DOMAIN calls : Len(calls[k]) = 1

\* the text recorded for an insert that failed
FailureReason(outcome) ==
    IF outcome = "rejected" THEN DbErrorMessage ELSE ThrownMessage

\* C8: a failed insert stays inside _processRows: the row is recorded as an
\* error with the adapter's text or the exception's message and counted,
\* the rows after it are handled, and the error that leaves _processRows
\* is never a row's.
C8_RowFailureContained ==
    /\ \A k \in DOMAIN calls :
           (calls[k] # <<>> /\ calls[k][1] # "ok") =>
               /\ k <= Len(csvRemark)
               /\ csvRemark[k] =
                      ErrorDetail(rows[k], FailureReason(calls[k][1]), <<>>)
    /\ errorCount =
           Cardinality({k \in DOMAIN csvRemark : ~csvRemark[k].success})
    /\ RowLoopDone => Len(csvRemark) = Len(rows)
    /\ error \notin {DbErrorMessage, ThrownMessage}
    /\ \A n \in DOMAIN results :
           results[n].error \notin {DbErrorMessage, ThrownMessage}

\* C8 witness: the first row's insert failed and the second row was stored
\* or failed in the other way
C8_Witness ==
    /\ Len(csvRemark) = 2
    /\ calls[1] \in {<<"rejected">>, <<"threw">>}
    /\ calls[2] # <<>>
    /\ calls[2] # calls[1]

\* the k-th row of the current file is in the entity's table
Persisted(k) ==
    LET stored == StoredRow(entity, fileName, run, k,
                            MappedPool[entity][rows[k]])
    IN  \E m \in DOMAIN db[entity] :
            \/ db[entity][m] = stored
            \/ /\ conflictColumns(entity) # <<>>
               /\ db[entity][m].key = stored.key

\* C9: a failed insert undoes that row only: once the file has committed,
\* every row whose insert succeeded is in the table.
C9_RowInsertsIsolated ==
    AfterProcessRows =>
        \A k \in DOMAIN calls : calls[k] = <<"ok">> => Persisted(k)

\* the messages of a failure of the file's transaction
TransactionFailures ==
    {"BEGIN failed", "TRUNCATE failed", "COMMIT failed", "ROLLBACK failed"}

\* C10: a failure of BEGIN, of the truncate or of COMMIT leaves none of the
\* file's rows in the table (and what the table held before the first
\* file), is recorded as the file's failure, and leaves the source object
\* in place with no copy under the processed prefix.
C10_FatalErrorRollsBack ==
    \A n \in DOMAIN results :
        results[n].error \in TransactionFailures =>
            /\ ~results[n].success
            /\ failed >= 1
            /\ RowsOfRun(db[entity], results[n].file) = {}
            /\ (run = 1 /\ n = 1) =>
                   db[entity] = IF entity = "orders" THEN StaleStage
                                ELSE <<>>
            /\ SourceKey(entity, results[n].file) \in s3
            /\ ProcessedKey(entity, results[n].file, run) \notin s3

\* C10 witness: COMMIT failed on a file whose first row is valid, and the
\* failure is in the run's results
C10_Witness ==
    \E n \in DOMAIN results :
        /\ results[n].error = "COMMIT failed"
        /\ content[results[n].file] # <<>>
        /\ content[results[n].file][1] = "ok"
        /\ tx = "none"

\* the await points of _processRows between pool.connect() and release()
InProcessRows == pc \in {"begin", "truncate", "rows", "commit", "rollback"}

\* C13: _processRows holds one connection from pool.connect() to its
\* finally block and none after it has returned or thrown; the only other
\* connection ever held is the one callMergeProcedure holds for its call.
C13_ConnectionReleased ==
    /\ InProcessRows => held = 1 /\ rows # <<>>
    /\ pc = "mergeCall" => held = 1
    /\ (~InProcessRows /\ pc # "mergeCall") => held = 0

\* C13 witness: ROLLBACK itself has failed for a file and no connection is
\* held
C13_Witness ==
    /\ held = 0
    /\ \E n \in DOMAIN results : results[n].error = "ROLLBACK failed"

\* C16: the remark is uploaded under the logs prefix if and only if the
\* file had an error row: the upload is reached only with errorCount > 0,
\* and a file processed successfully has a log object of this run exactly
\* when its errorCount is positive.
C16_RemarkUploadedIffErrors ==
    /\ pc \in {"remark", "upload"} => errorCount > 0
    /\ \A n \in DOMAIN results :
           (results[n].success /\ ~results[n].skipped) =>
               (LogKey(entity, results[n].file, run) \in s3
                    <=> results[n].errorCount > 0)
    /\ \A n \in DOMAIN results :
           (~results[n].success \/ results[n].skipped) =>
               LogKey(entity, results[n].file, run) \notin s3

\* C16 witness: a file with a stored row and an error row has returned and
\* its remark is in the bucket
C16_Witness ==
    \E n \in DOMAIN results :
        /\ results[n].success
        /\ results[n].successCount > 0
        /\ results[n].errorCount > 0
        /\ LogKey(entity, results[n].file, run) \in s3

\* the skipped result of a file without rows
SkippedResult(f) ==
    [file |-> f, success |-> TRUE, skipped |-> TRUE, rowCount |-> 0,
     successCount |-> 0, errorCount |-> 0, error |-> ""]

\* C17: a file that parses to no row returns the skipped result and never
\* reaches a database or storage step: the tables and the bucket are as
\* they were before the run and no connection was checked out.
C17_EmptyFileSkipped ==
    /\ (fileName # "" /\ content[fileName] = <<>>) =>
           /\ pc \in {"check", "get"}
           /\ held = 0
           /\ tx = "none"
    /\ \A n \in DOMAIN results :
           (results[n].success /\ content[results[n].file] = <<>>) =>
               /\ results[n] = SkippedResult(results[n].file)
               /\ db = [e \in Entities |->
                           IF e = "orders" THEN StaleStage ELSE <<>>]
               /\ s3 = {SourceKey(entity, results[n].file)}
                           \cup FolderMarkers(entity)

\* C17 witness: the run's only file had no row and was skipped
C17_Witness ==
    /\ pc = "idle"
    /\ Len(results) = 1
    /\ results[1].skipped
    /\ content[results[1].file] = <<>>

\* the number of results of the run with the given success flag
CountResults(flag) ==
    Cardinality({n \in DOMAIN results : results[n].success = flag})

\* C11: the per-entity runner catches a file's fatal error, records the
\* file as failed and goes on: while it runs there is one result for every
\* earlier file of the listing, and when it returns there is one for every
\* listed file, in order, failures counted in failed.
C11_RunnerContinuesAfterFailure ==
    /\ pc # "idle" =>
           /\ fi \in DOMAIN files
           /\ fileName = files[fi]
           /\ Len(results) = fi - 1
    /\ pc = "idle" => Len(results) = Len(files)
    /\ \A n \in DOMAIN results : results[n].file = files[n]
    /\ successful = CountResults(TRUE)
    /\ failed = CountResults(FALSE)

\* C11 witness: the first of two files failed in its transaction and the
\* second was processed and moved
C11_Witness ==
    /\ pc = "idle"
    /\ Len(results) = 2
    /\ results[1].error \in TransactionFailures
    /\ results[2].success
    /\ ~results[2].skipped
    /\ failed = 1

\* C14: the listing never returns the prefix marker, a key under the
\* processed or the logs sub-prefix, or a key that does not end in .csv:
\* every listed name is a .csv name directly under the source prefix.
C14_ListingExcludes ==
    \A n \in DOMAIN allFiles :
        /\ allFiles[n].path = ""
        /\ allFiles[n].pre = 0
        /\ allFiles[n].suf = 0
        /\ allFiles[n].name \in FileNames

\* what _listFiles has collected when it is about to send a request and
\* when it has returned
ListingSoFar ==
    LET all == ListObjects(s3, entity)
        first == IF continuationToken = 0 THEN 1 ELSE continuationToken
    IN  /\ listing = "send" =>
               /\ continuationToken # 0 => continuationToken <= Len(all)
               /\ allFiles = EligibleNames(entity, SubSeq(all, 1, first - 1))
        /\ listing = "done" =>
               /\ continuationToken = 0
               /\ allFiles = EligibleNames(entity, all)

\* C15: the listing follows the continuation tokens: a further request is
\* sent only after a truncated response, what is returned is the eligible
\* keys of all the pages in page order, and the loop ends.
C15_ListingPaginates ==
    /\ []ListingSoFar
    /\ <>(listing \in {"done", "threw"})

\* C15 witness: a listing of one key per response has returned two names
\* from a prefix that holds other keys between them
C15_Witness ==
    /\ listing = "done"
    /\ maxKeys = 1
    /\ Len(allFiles) = 2
    /\ Len(ListObjects(s3, entity)) > 3

\* the result of a run over one file that was processed with every row
\* stored
AllRowsStored(res) ==
    /\ Len(res) = 1
    /\ res[1].success
    /\ res[1].rowCount > 0
    /\ res[1].successCount = res[1].rowCount

\* the same file has been processed by two runs in a row, every row stored
\* by the first and none in error in the second
ProcessedTwice ==
    /\ pc = "idle"
    /\ run >= 2
    /\ previous.run = run - 1
    /\ AllRowsStored(previous.results)
    /\ Len(results) = 1
    /\ results[1].success
    /\ results[1].errorCount = 0

\* C18: for an entity whose INSERT has ON CONFLICT DO NOTHING, a second
\* run of the same file counts every row as a success again and leaves
\* the table as the first run left it.
C18_UpsertRerunIdempotent ==
    (ProcessedTwice /\ conflictColumns(entity) # <<>>) =>
        /\ results[1].successCount = results[1].rowCount
        /\ results[1].rowCount = previous.results[1].rowCount
        /\ db[entity] = previous.db[entity]
        /\ db[entity] # <<>>

\* C18 witness: a file of two rows was processed twice for such an entity
C18_Witness ==
    /\ ProcessedTwice
    /\ conflictColumns(entity) # <<>>
    /\ results[1].successCount = 2

\* C19 as stated: after the second run of the same orders file the staging
\* table holds the rows of the second run on top of those of the first.
C19_OrdersRerunAccumulates ==
    (ProcessedTwice /\ entity = "orders") =>
        /\ \E k \in DOMAIN db["orders"] : db["orders"][k].run = run - 1
        /\ Len(db["orders"]) =
               Len(previous.db["orders"]) + results[1].successCount

\* C19 amended: the second run of the same orders file attempts every row
\* again, and since the stage is truncated in the file's transaction the
\* staging table then holds the rows of the second run and no others.
C19_OrdersRerunReplaces ==
    (ProcessedTwice /\ entity = "orders") =>
        /\ results[1].successCount = results[1].rowCount
        /\ results[1].rowCount = previous.results[1].rowCount
        /\ \A k \in DOMAIN db["orders"] : db["orders"][k].run = run
        /\ Len(db["orders"]) = results[1].successCount
        /\ Len(previous.db["orders"]) = previous.results[1].successCount

\* C19 witness: an orders file of two rows was processed twice
C19_Witness ==
    /\ ProcessedTwice
    /\ entity = "orders"
    /\ results[1].successCount = 2

\* the process was started to run every entity
AllRun == command \in AllCommands

\* the process was started on one orders file
FileRun == command \notin EntityCommands \cup AllCommands

\* C12: in the all-entities run a failure inside one entity's runner, a
\* failure to list that entity's files included, is tallied and every
\* remaining entity's runner is still started: when the process has exited,
\* all six runners were awaited and no listing error reached the dispatcher.
C12_AllEntitiesProcessed ==
    (AllRun /\ pc = "exited") =>
        /\ ei = Len(EntityOrder)
        /\ fatal # "Error listing files"

\* C20: the process exits with 0 when the selected run ended without an
\* error reaching the dispatcher and with 1 otherwise: it has no exit code
\* before it exits; a one-file run whose file failed exits with 1 and never
\* reaches shutdown; an all-entities run that exits with 0 has awaited all
\* six runners, and its files that failed are in the totals, not in the exit
\* code.
C20_ExitCode ==
    /\ (pc = "exited") <=> (exitCode # Running)
    /\ pc = "exited" => /\ exitCode \in {0, 1}
                        /\ (exitCode = 0) <=> (fatal = "")
    /\ (FileRun /\ ei = 1 /\ pc \in {"idle", "shutdown", "exited"}
          /\ ~results[1].success) =>
            /\ pc # "shutdown"
            /\ pc = "exited" => exitCode = 1 /\ fatal = results[1].error
    /\ (AllRun /\ (pc = "shutdown" \/ exitCode = 0)) =>
            /\ ei = Len(EntityOrder)
            /\ totals.processed = totals.successful + totals.failed
            /\ totals.failed >= failed
    /\ (AllRun /\ exitCode = 1 /\ ei = Len(EntityOrder)) =>
            fatal = "close failed"

\* an all-entities run exited with 0 although one of its files had failed
C20_Witness ==
    /\ AllRun
    /\ pc = "exited"
    /\ exitCode = 0
    /\ totals.failed >= 1

\* the file whose turn it is has no object under the source prefix
Gone == pc = "check" /\ ~checkFileExists(s3, entity, fileName)

\* the runner's record of a failed file, and the next file's turn
FailsAndGoesOn ==
    /\ \E message \in {"File not found", "Error checking file existence"} :
          results' = Append(results, FailedResult(message))
    /\ failed' = failed + 1
    /\ successful' = successful
    /\ IF fi < Len(files)
       THEN pc' = "check" /\ fi' = fi + 1 /\ fileName' = files[fi + 1]
       ELSE pc' = "idle"
    /\ UNCHANGED <<s3, database, rows, calls>>

\* a file recorded as not found has left nothing: no row of the run in the
\* table, no processed copy, no remark
NotFoundLeftNothing ==
    \A k \in DOMAIN results :
        results[k].error = "File not found" =>
            /\ ~results[k].success
            /\ \A n \in DOMAIN db[entity] :
                  ~(db[entity][n].file = results[k].file
                    /\ db[entity][n].run = run)
            /\ ProcessedKey(entity, results[k].file, run) \notin s3
            /\ LogKey(entity, results[k].file, run) \notin s3

\* C21: when the file whose turn it is no longer exists at the existence
\* check, the only thing the pipeline does with it is to record it as failed
\* (not found, or the check itself failing), without a fetch, a connection
\* or a statement, and to go on to the next listed file; a file recorded as
\* not found has left no row, no processed copy and no remark, and every
\* listed file gets its result, in listing order.
C21_VanishedFileFailsAlone ==
    /\ [][Gone => (ObjectVanishes \/ FailsAndGoesOn)]_vars
    /\ [](NotFoundLeftNothing
          /\ Len(results) <= Len(files)
          /\ (\A k \in DOMAIN results : results[k].file = files[k])
          /\ (pc = "idle" /\ run >= 1 => Len(results) = Len(files)))

\* the first of two files was gone at its check, the second was loaded
C21_Witness ==
    /\ pc = "idle"
    /\ Len(results) = 2
    /\ results[1].error = "File not found"
    /\ results[2].success
    /\ results[2].successCount = 1
    /\ \E n \in DOMAIN db[entity] :
          db[entity][n].file = "b.csv" /\ db[entity][n].run = run

\* every character of the key is in [a-z0-9]
LowerAlnum(key) == \A k \in DOMAIN key : IsLowerAlnum(key[k])

\* the last entry of the row whose header normalizes to the key
LastOf(row, key) ==
    CHOOSE k \in DOMAIN row :
        /\ NormalizeKey(row[k][1]) = key
        /\ \A m \in DOMAIN row : NormalizeKey(row[m][1]) = key => m <= k

\* C22: normalizeCSVRow is idempotent, normalizeCSVRow(normalizeCSVRow(r))
\* is normalizeCSVRow(r), keys, values and property order, and a key of r
\* that is already lowercase alphanumeric is a key of the result, holding
\* the value of the last entry that normalizes to it.
C22_NormalizeIdempotent ==
    /\ Len(out) = 2 => out[2] = out[1]
    /\ Len(out) >= 1 =>
          \A k \in DOMAIN arg :
              LowerAlnum(arg[k][1]) =>
                  /\ NormalizeKey(arg[k][1]) = arg[k][1]
                  /\ HasKey(out[1], arg[k][1])
                  /\ Get(out[1], arg[k][1]) = arg[LastOf(arg, arg[k][1])][2]

\* a row normalized twice whose first normalization changed its keys and
\* merged two columns into one
C22_Witness ==
    /\ Len(out) = 2
    /\ Len(arg) = 3
    /\ Len(out[1]) = 2
    /\ \E k \in DOMAIN arg : ~LowerAlnum(arg[k][1])
    /\ \E k \in DOMAIN arg : LowerAlnum(arg[k][1])

\* the row has been through Validate
Validated == out # <<>> /\ "cells" \in DOMAIN arg

\* the cell of the form's column that is mapped to the field
CellOf(field) ==
    arg.cells[CHOOSE k \in DOMAIN FormFields(arg.entity) :
                 FormFields(arg.entity)[k] = field]

\* the reason text names the k-th missing field between the separators
Mentions(reason, missingFields, k) ==
    reason = "Missing required fields: "
             \o JoinComma(SubSeq(missingFields, 1, k - 1))
             \o (IF k > 1 THEN ", " ELSE "")
             \o missingFields[k]
             \o (IF k < Len(missingFields) THEN ", " ELSE "")
             \o JoinComma(SubSeq(missingFields, k + 1, Len(missingFields)))

\* C23: for every entity the missing-field list of a row is the required
\* fields, in declared order, whose mapped value is null, undefined or '';
\* a required field whose column is absent from the file and one whose cell
\* is empty are both in the list; an orders row without caseid has caseid in
\* the list and in the reason text.
C23_MissingFieldList ==
    Validated =>
        LET e == arg.entity
            mapped == out[1].mappedRow
            isMissing(f) == mapped[f] \in {Null, Undefined, Str("")}
        IN  /\ out[1].missingFields = SelectSeq(requiredFields(e), isMissing)
            /\ \A k \in DOMAIN requiredFields(e) :
                  CellOf(requiredFields(e)[k]) \in {"empty", "absent"} =>
                      \E n \in DOMAIN out[1].missingFields :
                          out[1].missingFields[n] = requiredFields(e)[k]
            /\ \A k \in DOMAIN requiredFields(e) :
                  CellOf(requiredFields(e)[k]) = "value" =>
                      \A n \in DOMAIN out[1].missingFields :
                          out[1].missingFields[n] # requiredFields(e)[k]
            /\ (e = "orders" /\ CellOf("caseid") \in {"empty", "absent"}) =>
                  \E n \in DOMAIN out[1].missingFields :
                      /\ out[1].missingFields[n] = "caseid"
                      /\ Mentions(out[1].reason, out[1].missingFields, n)

\* an orders row whose Case ID column is absent, whose Product ID cell is
\* empty and whose other required cells are filled
C23_Witness ==
    /\ Validated
    /\ arg.entity = "orders"
    /\ CellOf("caseid") = "absent"
    /\ CellOf("productid") = "empty"
    /\ CellOf("submissiondate") = "value"
    /\ out[1].mappedRow.submissiondate = Str("7")
    /\ out[1].missingFields = <<"caseid", "productid">>
    /\ out[1].reason = "Missing required fields: caseid, productid"

\* C24: a dental-groups row whose dental_group_id or whose name is missing
\* or blank is a validation error: its missing-field list is not empty, so
\* the row loop takes the branch that records the row and skips the insert.
C24_DentalGroupsNameRequired ==
    (Validated /\ arg.entity = "dentalGroups") =>
        ((CellOf("dental_group_id") \in {"empty", "absent"}
          \/ CellOf("name") \in {"empty", "absent"}) =>
            out[1].missingFields # <<>>)

\* the awaits of _processRows between BEGIN and the end of the transaction
InTransaction == {"truncate", "rows", "commit", "rollback"}

\* a transaction is opened by the BEGIN of the file being processed, on the
\* one connection checked out
OpenedByBegin ==
    (tx = "none" /\ tx' # "none") =>
        /\ pc = "begin"
        /\ held = 1
        /\ fileName' = fileName
        /\ fileName # ""

\* a transaction is ended by the COMMIT or the ROLLBACK of the file that
\* opened it, and that step releases the connection
ClosedByCommitOrRollback ==
    (tx # "none" /\ tx' = "none") =>
        /\ pc \in {"commit", "rollback"}
        /\ held = 1
        /\ held' = 0

\* no statement of another file or entity before the transaction has ended:
\* the file and the entity change only with no transaction and no
\* connection of _processRows
OneFileAtATime ==
    (fileName' # fileName \/ entity' # entity \/ fi' # fi) =>
        /\ tx' = "none"
        /\ txdb' = <<>>
        /\ held' = 0
        /\ tx = "none" \/ pc \in {"commit", "rollback"}

\* C25: no two files share a transaction and nothing runs concurrently: at
\* most one connection is checked out; a transaction exists only between
\* the BEGIN and the COMMIT or ROLLBACK of the file being processed; it is
\* opened by that file's BEGIN and ended by exactly one step, that file's
\* COMMIT or ROLLBACK, which also releases the connection; and the runner
\* turns to the next file or entity only when no transaction is open and no
\* connection is held.
C25_SequentialTransactions ==
    /\ [](held \in {0, 1})
    /\ [](tx # "none" => held = 1 /\ pc \in InTransaction /\ fileName # "")
    /\ [](pc \in {"idle", "check", "get", "connect", "shutdown", "exited"}
             => tx = "none" /\ held = 0)
    /\ [][OpenedByBegin /\ ClosedByCommitOrRollback /\ OneFileAtATime]_vars

\* the second entity's file is inside its transaction after the orders
\* files have been through theirs, the first of them committed
C25_Witness ==
    /\ command \in AllCommands
    /\ ei = 2
    /\ pc = "rows"
    /\ tx = "open"
    /\ held = 1
    /\ totals.processed = 2
    /\ \E n \in DOMAIN db["orders"] : db["orders"][n].file = "b.csv"

\* the rows the transaction sees are rows of the file being processed
OnlyThisFile ==
    \A n \in DOMAIN txdb :
        txdb[n].file = fileName /\ txdb[n].run = run

\* no insert function has been called for any row of the file
NoInsertCalled == \A k \in DOMAIN calls : calls[k] = <<>>

\* the committed table holds no row of the given file of this run
NothingCommittedOf(f) ==
    \A n \in DOMAIN db[entity] :
        ~(db[entity][n].file = f /\ db[entity][n].run = run)

\* the TRUNCATE step leaves the committed table alone; it either empties
\* the transaction's view and goes on to the rows, or fails into the catch
\* block
TruncateStep ==
    pc = "truncate" =>
        /\ db' = db
        /\ held' = held
        /\ \/ pc' = "rows" /\ txdb' = <<>> /\ tx' = "open"
           \/ pc' = "rollback" /\ error' = "TRUNCATE failed" /\ tx' # "open"

\* the catch block after a failed TRUNCATE ends the transaction without
\* touching the committed table and the file is recorded as failed
TruncateFailureStep ==
    (pc = "rollback" /\ error = "TRUNCATE failed") =>
        /\ db' = db
        /\ tx' = "none"
        /\ s3' = s3
        /\ Len(results') = Len(results) + 1
        /\ ~results'[Len(results')].success

\* C26: for orders the staging table is cleared inside the file's
\* transaction before the first row insert: the TRUNCATE is issued after
\* BEGIN on the held connection with no insert called yet and changes the
\* transaction's view only; from the first row on, the open transaction
\* sees rows of this file only.  When the TRUNCATE fails, the catch block
\* rolls back with no insert called, the committed table is left as it was
\* and the file is recorded as failed.  For the other entities no TRUNCATE
\* is issued and the first row meets the table's rows.
C26_TruncateInsideTransaction ==
    /\ [][TruncateStep /\ TruncateFailureStep]_vars
    /\ [](pc = "truncate" =>
             /\ entity = "orders"
             /\ tx = "open"
             /\ held = 1
             /\ txdb = db[entity]
             /\ NoInsertCalled)
    /\ []((entity = "orders" /\ pc \in {"rows", "commit"} /\ tx = "open") =>
             /\ OnlyThisFile
             /\ NothingCommittedOf(fileName))
    /\ []((pc = "rollback" /\ error = "TRUNCATE failed") =>
             /\ NoInsertCalled
             /\ successCount = 0
             /\ NothingCommittedOf(fileName))
    /\ [](\A k \in DOMAIN results :
             results[k].error = "TRUNCATE failed" =>
                 /\ ~results[k].success
                 /\ NothingCommittedOf(results[k].file)
                 /\ SourceKey(entity, results[k].file) \in s3)
    /\ []((entity # "orders" /\ pc = "rows" /\ i = 0 /\ j = 0) =>
             txdb = db[entity])

\* an orders file before COMMIT: its row is the only row the transaction
\* sees, the stale rows of the staging table are still committed
C26_Witness ==
    /\ entity = "orders"
    /\ pc = "commit"
    /\ tx = "open"
    /\ Len(txdb) >= 1
    /\ OnlyThisFile
    /\ db[entity] = StaleStage

\* the rows the two loops have been through, whatever the batches are
Handled == Min(i + j, Len(rows))

\* a step of the row loop seen through Handled is the step of a loop that
\* takes the rows one at a time: the row in turn is the next row of the
\* file, it gets one outcome, one count and at most one database call, and
\* nothing is begun, committed or released between two rows
RowAtATime ==
    pc = "rows" =>
        /\ Row = rows[Handled + 1]
        /\ RowNumber = Handled + 1
        /\ Handled' = Handled + 1
        /\ pc' = IF Handled + 1 < Len(rows) THEN "rows" ELSE "commit"
        /\ Len(csvRemark') = Len(csvRemark) + 1
        /\ SubSeq(csvRemark', 1, Len(csvRemark)) = csvRemark
        /\ IF csvRemark'[Len(csvRemark')].success
           THEN csvRemark'[Len(csvRemark')].row =
                    MappedPool[entity][rows[Handled + 1]]
           ELSE csvRemark'[Len(csvRemark')].row = rows[Handled + 1]
        /\ successCount' + errorCount' = successCount + errorCount + 1
        /\ \A k \in DOMAIN calls :
              /\ k # Handled + 1 => calls'[k] = calls[k]
              /\ Len(calls'[k]) <= Len(calls[k]) + 1
        /\ db' = db
        /\ held' = held
        /\ tx # "none" /\ tx' # "none"

\* C27: the batch size has no effect on what _processRows does: whatever
\* batchSize is, each step of the two loops is the step of a loop over the
\* rows one at a time, in file order, with one outcome, one count and at
\* most one database call per row; the transaction is begun once before the
\* first row, nothing is committed between batches, and COMMIT is reached
\* once, when every row has its outcome.
C27_BatchSizeIrrelevant ==
    /\ [][RowAtATime]_vars
    /\ [](pc = "begin" => Handled = 0 /\ csvRemark = <<>> /\ tx = "none")
    /\ [](pc = "rows" =>
             /\ Handled < Len(rows)
             /\ Len(csvRemark) = Handled
             /\ successCount + errorCount = Handled)
    /\ [](pc = "commit" =>
             /\ Handled = Len(rows)
             /\ Len(csvRemark) = Len(rows)
             /\ successCount + errorCount = Len(rows)
             /\ tx # "none")

\* a file of more rows than a batch holds, at COMMIT, with a stored row and
\* an error row
C27_Witness ==
    /\ pc = "commit"
    /\ batchSize < Len(rows)
    /\ successCount >= 1
    /\ errorCount >= 1

\* the object has the keys of the parsed row, each with the row's value
SameObject(object, row) ==
    /\ DOMAIN object = {Join(row[k][1]) : k \in DOMAIN row}
    /\ \A k \in DOMAIN row : object[Join(row[k][1])] = row[k][2]

\* C28: in the remark list the record of a successful row is the input row
\* unchanged, and the record of an error row is the input row with its
\* reason and its missing-field list.
C28_RemarkRecords ==
    \A k \in DOMAIN csvRemark :
        IF csvRemark[k].success
        THEN SameObject(csvRemark[k].row, rows[k])
        ELSE /\ csvRemark[k].row = rows[k]
             /\ csvRemark[k].reason # ""
             /\ csvRemark[k].missingFields =
                   MissingFieldsOf(MappedPool[entity][rows[k]],
                                   requiredFields(entity))

\* C29: every map function yields null for every target field whose source
\* value is missing (no such column) or blank (an empty cell), the
\* centralized_billing boolean of dental groups included.
C29_BlankMapsToNull ==
    Validated =>
        LET e == arg.entity
            mapped == out[1].mappedRow
        IN  /\ \A k \in DOMAIN FormFields(e) :
                  (FormFields(e)[k] # ""
                   /\ arg.cells[k] \in {"empty", "absent"}) =>
                      mapped[FormFields(e)[k]] = Null
            /\ \A f \in DOMAIN mapped \ Range(FormFields(e)) :
                  mapped[f] = Null

\* the k-th column of the form is a required numeric column holding letters
LettersInRequiredNumber(k) ==
    /\ FormKinds(arg.entity)[k] = "number"
    /\ arg.cells[k] = "letters"
    /\ \E n \in DOMAIN requiredFields(arg.entity) :
          requiredFields(arg.entity)[n] = FormFields(arg.entity)[k]

Names(missingFields) == Range(missingFields)

\* C30: a failed numeric coercion is handled differently on the two paths.
\* In a reference entity, letters in a required numeric id are mapped to
\* null, the field is in the missing-field list and no insert is called.
\* In orders, letters in quantity are mapped to NaN, quantity is not in the
\* missing-field list, and when nothing else is missing the insert is
\* called with quantity null and an accepted row is counted as a success.
C30_CoercionPaths ==
    Validated =>
        LET e == arg.entity
            mapped == out[1].mappedRow
            missing == Names(out[1].missingFields)
        IN  /\ \A k \in DOMAIN arg.cells :
                  (e # "orders" /\ LettersInRequiredNumber(k)) =>
                      /\ mapped[FormFields(e)[k]] = Null
                      /\ FormFields(e)[k] \in missing
                      /\ Len(out) = 1
            /\ (e = "orders" /\ CellOf("quantity") = "letters") =>
                  /\ mapped.quantity = NaN
                  /\ "quantity" \notin missing
                  /\ Len(out) = 2 =>
                        /\ missing = {}
                        /\ out[2].values.quantity = Null
                        /\ out[2].success => out[2].counted = "successCount"
            /\ (e = "orders" /\ CellOf("quantity") = "value") =>
                  /\ mapped.quantity = Num(7)
                  /\ Len(out) = 2 => out[2].values.quantity = Num(7)

\* an orders row with letters in quantity and every other required cell
\* filled: the server accepted the INSERT, quantity was bound as null
C30_Witness ==
    /\ Validated
    /\ arg.entity = "orders"
    /\ CellOf("quantity") = "letters"
    /\ Len(out) = 2
    /\ out[2].success
    /\ out[2].counted = "successCount"
    /\ out[2].values.quantity = Null
    /\ out[2].values.caseid = Num(7)

\* the entries of the row whose headers normalize to the key
Colliding(row, key) == {k \in DOMAIN row : NormalizeKey(row[k][1]) = key}

\* the entries of the normalized row under the key
EntriesOf(normalized, key) ==
    {k \in DOMAIN normalized : normalized[k][1] = key}

\* the header among the colliding ones that csv-parser read from the
\* rightmost column
LastColumnOf(row, key) ==
    CHOOSE k \in Colliding(row, key) :
        \A m \in Colliding(row, key) :
            ColumnOf(row[m][2]) <= ColumnOf(row[k][2])

\* C31: when two distinct raw headers of a row normalize to the same key,
\* the normalized row holds exactly one entry for that key, and it carries
\* the value of the header that comes last in the row's column order.
C31_CollisionLastColumnWins ==
    Len(out) >= 1 =>
        \A k \in DOMAIN arg :
            LET key == NormalizeKey(arg[k][1])
            IN  Cardinality(Colliding(arg, key)) >= 2 =>
                    /\ Cardinality(EntriesOf(out[1], key)) = 1
                    /\ Get(out[1], key) = arg[LastColumnOf(arg, key)][2]

\* C31 as the code has it: the normalized row holds exactly one entry for
\* a key two headers normalize to, carrying the value of the header that
\* Object.entries visits last; that is the header of the rightmost column
\* unless one of the colliding headers is an array index, which
\* Object.entries visits before every other header.
C31_CollisionLastEntryWins ==
    Len(out) >= 1 =>
        \A k \in DOMAIN arg :
            LET key == NormalizeKey(arg[k][1])
            IN  Cardinality(Colliding(arg, key)) >= 2 =>
                    /\ Cardinality(EntriesOf(out[1], key)) = 1
                    /\ Get(out[1], key) = arg[LastOf(arg, key)][2]
                    /\ (\A m \in Colliding(arg, key) : ~IsIndex(arg[m][1]))
                          => LastOf(arg, key) = LastColumnOf(arg, key)

\* three headers that normalize to one key, none of them an array index,
\* normalized to a single entry with the third column's cell
C31_Witness ==
    /\ Len(out) >= 1
    /\ Len(arg) = 3
    /\ Cardinality(Colliding(arg, NormalizeKey(arg[1][1]))) = 3
    /\ Len(out[1]) = 1
    /\ out[1][1][2] = Str(CellPool[3])
\* the rows of the current file whose insert was counted as a success
CountedRows == {k \in DOMAIN calls : calls[k] = <<"ok">>}

\* C32: whenever a file run returns successfully, every row counted in
\* successCount is in the target table after COMMIT: the counted rows are
\* successCount many and each is stored, and a returned orders file has
\* left successCount rows in the staging table.
C32_CountedRowsDurable ==
    /\ AfterProcessRows =>
          /\ Cardinality(CountedRows) = successCount
          /\ Cardinality({k \in CountedRows : Persisted(k)}) = successCount
    /\ \A n \in DOMAIN results :
          (entity = "orders" /\ results[n].success) =>
              Cardinality(RowsOfRun(db[entity], results[n].file))
                  = results[n].successCount
\* C33: whenever the runner tallies a file as failed, the file's run left
\* no lasting effect: none of its rows is in the entity's table, no copy of
\* it is under the processed prefix and its source object is in the bucket.
C33_FailedFileLeavesNothing ==
    \A n \in DOMAIN results :
        ~results[n].success =>
            /\ RowsOfRun(db[entity], results[n].file) = {}
            /\ ProcessedKey(entity, results[n].file, run) \notin s3
            /\ SourceKey(entity, results[n].file) \in s3
\* the merge procedure is being invoked: callMergeProcedure holds its
\* client and sends CALL merge_orders_stage()
MergeInvoked == pc = "mergeCall"

\* C34: the merge procedure is invoked only for an orders file with rows,
\* only after that file's row transaction has committed, on a client of
\* its own once the row transaction's client is released, and not a second
\* time for the file; never when the row transaction rolled back.
C34_MergeOnceAfterCommit ==
    MergeInvoked =>
        /\ entity = "orders"
        /\ rows # <<>>
        /\ tx = "none"
        /\ held = 1
        /\ mergeOutcome = "none"
        /\ txOutcome = "committed"
\* C35: at every invocation of the merge procedure the staging table holds
\* exactly the rows of the current orders file whose insert was counted as
\* a success, and no row of an earlier file or an earlier run.
C35_StageHoldsCurrentFile ==
    MergeInvoked =>
        /\ \A m \in DOMAIN db["orders"] :
              /\ db["orders"][m].file = fileName
              /\ db["orders"][m].run = run
        /\ {db["orders"][m].rowNumber : m \in DOMAIN db["orders"]}
              = CountedRows
        /\ Len(db["orders"]) = successCount
\* the content of the file is in the bucket, under its source key or under
\* a processed key
ContentKept(f) ==
    \/ SourceKey(entity, f) \in s3
    \/ \E timestamp \in 0..run : ProcessedKey(entity, f, timestamp) \in s3

\* a step that removes a source object is the delete of _moveToProcessed
\* for the current file, taken when the processed copy is in the bucket
DeletedAfterCopy ==
    \A f \in FileNames :
        (SourceKey(entity, f) \in s3 /\ SourceKey(entity, f) \notin s3') =>
            /\ pc = "delete"
            /\ fileName = f
            /\ ProcessedKey(entity, f, run) \in s3

\* C36: no file content is lost by move-to-processed: in every reachable
\* state, also after a failed copy or a failed delete, each file's content
\* is under its source key or under a processed key, and a source object
\* is deleted only after its copy has succeeded.
C36_MoveKeepsContent ==
    /\ [](\A f \in FileNames : ContentKept(f))
    /\ [][DeletedAfterCopy]_vars

\* a.csv was moved (only its processed copy is left), then the delete of
\* b.csv failed, leaving its source object next to the copy
C36_Witness ==
    /\ Len(results) = 2
    /\ results[1].success /\ ~results[1].skipped
    /\ SourceKey(entity, "a.csv") \notin s3
    /\ ProcessedKey(entity, "a.csv", run) \in s3
    /\ results[2].error = "Error moving file"
    /\ SourceKey(entity, "b.csv") \in s3
    /\ ProcessedKey(entity, "b.csv", run) \in s3
\* C37: for every configured batch size, 0 and NaN included, the row loop
\* of _processRows terminates having visited every input row exactly once.
C37_LoopVisitsEveryRowOnce ==
    <>(out.done /\ out.visited = arg.rows)
\* a per-entity runner has returned its result to processAllFiles or to
\* the dispatcher
RunnerResult ==
    /\ ~FileRun
    /\ ei >= 1
    /\ pc \in {"idle", "shutdown"}

\* the files the entity's folder held when the process started, in listing
\* order
StockedListing(e) ==
    LET stocked(f) == e \in Stocked /\ f \in StockedFiles(e)
    IN  SelectSeq(FileOrder, stocked)

\* processAllFiles adds the result of the runner that has returned, and the
\* runners are awaited in the fixed order
SumsInOrder ==
    AllRun =>
        /\ ei' = ei + 1 => entity' = EntityOrder[ei + 1]
        /\ totals' # totals =>
              /\ entity = EntityOrder[ei]
              /\ totals' = [processed |-> totals.processed + Len(results),
                            successful |->
                                totals.successful + CountResults(TRUE),
                            failed |-> totals.failed + CountResults(FALSE)]

\* C38: in every per-entity runner result processed is the number of listed
\* files, successful + failed is processed and results holds one entry per
\* listed file in listing order; the all-entities totals are the sums of
\* the six per-entity results, taken in the order orders, lab products, lab
\* practices, lab product mappings, lab practice mappings, dental groups.
C38_RunnerTotals ==
    /\ [](RunnerResult =>
            /\ files = StockedListing(entity)
            /\ Len(results) = Len(files)
            /\ successful + failed = Len(files)
            /\ \A n \in DOMAIN results : results[n].file = files[n])
    /\ []((AllRun /\ pc = "shutdown") =>
            /\ ei = Len(EntityOrder)
            /\ totals.processed
                  = Cardinality({<<e, f>> \in Stocked \X FileNames :
                                    f \in StockedFiles(e)})
            /\ totals.successful + totals.failed = totals.processed)
    /\ [][SumsInOrder]_vars

\* the all-entities run has summed three files of two entities, with a
\* failed and a successful file among them
C38_Witness ==
    /\ AllRun
    /\ pc = "shutdown"
    /\ totals.processed = 3
    /\ totals.failed >= 1
    /\ totals.successful >= 1
\* C39: checkFileExists(fileName, sourcePath) returns true only if an
\* object with exactly the key sourcePath + fileName is in the bucket; an
\* object whose key merely starts with that key does not make it true.
C39_ExistsMeansExactKey ==
    (out # <<>> /\ out[1].returned = "true") =>
        SourceKey(entity, arg.fileName) \in s3
\* the remark text is being written or uploaded
RemarkRendered == pc \in {"remark", "upload"}

\* C40: in the rendered remark text every record has the columns of the
\* header line, and the header names reason and missingFields whenever the
\* file has an error row, whatever the outcome of the first row.
C40_RemarkColumnsMatchHeader ==
    RemarkRendered =>
        LET text == objectToCSV(csvRemark)
        IN  /\ \A k \in DOMAIN text.rows : text.rows[k] = text.headers
            /\ errorCount > 0 =>
                  {"reason", "missingFields"} \subseteq text.headers
====
